---- MODULE Spec2Model ----
(***************************************************************************)
(* Frame orchestration of b3::Engine (mainLoop / update / acquire / render *)
(* / present / resize), the per-frame slots of Context::perFrame, the      *)
(* frustum test that feeds the visibility flags, and the GPU as an         *)
(* asynchronous consumer of queue submissions.                             *)
(*                                                                         *)
(* Vectors are integer triples <<x, y, z>>.  Slot and image indices are    *)
(* 1-based (index i of the model is index i-1 of the C++ vectors).         *)
(***************************************************************************)
EXTENDS Integers, Sequences, FiniteSets, TLC

\* ------------------------------------------------------------------ bounds
\* How many times the window surface changes its extent during a run.
MaxSurfaceChanges == 1

\* ---------------------------------------------------------- program values
VK_NULL_HANDLE == 0

VK_SUCCESS == "VK_SUCCESS"
VK_SUBOPTIMAL_KHR == "VK_SUBOPTIMAL_KHR"
VK_ERROR_OUT_OF_DATE_KHR == "VK_ERROR_OUT_OF_DATE_KHR"
VK_ERROR_DEVICE_LOST == "VK_ERROR_DEVICE_LOST"

\* Return codes vkAcquireNextImageKHR / vkQueuePresentKHR can produce.
VkResults ==
  {VK_SUCCESS, VK_SUBOPTIMAL_KHR, VK_ERROR_OUT_OF_DATE_KHR, VK_ERROR_DEVICE_LOST}

\* Image layouts used on the shadow depth image.
UNDEFINED == "VK_IMAGE_LAYOUT_UNDEFINED"
DEPTH_STENCIL_ATTACHMENT_OPTIMAL == "VK_IMAGE_LAYOUT_DEPTH_STENCIL_ATTACHMENT_OPTIMAL"
SHADER_READ_ONLY_OPTIMAL == "VK_IMAGE_LAYOUT_SHADER_READ_ONLY_OPTIMAL"

\* Surface / swapchain extents (abstract sizes).
Extents == {1, 2}

\* The extent of the window prepare() creates (m_windowWidth x m_windowHeight).
WindowExtent == 1

\* vkb::SwapchainBuilder::DOUBLE_BUFFERING, the desired minimum image count
\* initSwapchain asks for; the model takes it for the count every build
\* returns.
DOUBLE_BUFFERING == 2

ImageCounts == {DOUBLE_BUFFERING}

\* ------------------------------------------------------------ vector maths
Dot(a, b) == a[1] * b[1] + a[2] * b[2] + a[3] * b[3]

VecAdd(a, b) == <<a[1] + b[1], a[2] + b[2], a[3] + b[3]>>

\* Plane::distance, on a plane whose normal has not been divided by its
\* length yet: the value is |normal| times the signed distance.
distance(plane, p) == Dot(plane.normal, p) + plane.d

\* A view-projection matrix is vp[c][r], column c, row r, as in glm.
\* OrthoVP stands for proj * view of updateUBO: the matrix of a box of half
\* extent `half` centred at `eye`, scaled so that its entries are integers.
OrthoVP(eye, half) ==
  << <<1, 0, 0, 0>>,
     <<0, 1, 0, 0>>,
     <<0, 0, 1, 0>>,
     <<-eye[1], -eye[2], -eye[3], half>> >>

\* The planes read with row and column exchanged.
PlaneOfTransposed(vp, row, sign) ==
  [normal |-> <<vp[4][1] + sign * vp[row][1],
                vp[4][2] + sign * vp[row][2],
                vp[4][3] + sign * vp[row][3]>>,
   d |-> vp[4][4] + sign * vp[row][4]]

\* extractFrustum: plane k combines row 4 with row 1, 2 or 3 of the matrix.
\* The division by the normal's length is carried by sphereInFrustum.
PlaneOf(vp, row, sign) ==
  [normal |-> <<vp[1][4] + sign * vp[1][row],
                vp[2][4] + sign * vp[2][row],
                vp[3][4] + sign * vp[3][row]>>,
   d |-> vp[4][4] + sign * vp[4][row]]

extractFrustum(vp) ==
  << PlaneOf(vp, 1, 1), PlaneOf(vp, 1, -1),
     PlaneOf(vp, 2, 1), PlaneOf(vp, 2, -1),
     PlaneOf(vp, 3, 1), PlaneOf(vp, 3, -1) >>

\* The test with `<=` in place of `<`.
OutsideInclusive(plane, bs) ==
  LET dist == distance(plane, bs.center)
      len2 == Dot(plane.normal, plane.normal)
  IN dist <= 0 /\ dist * dist >= bs.radius * bs.radius * len2

\* dist / len < -radius, for radius >= 0, without the square root:
\* dist < 0 and dist^2 > radius^2 * len^2.
Outside(plane, bs) ==
  LET dist == distance(plane, bs.center)
      len2 == Dot(plane.normal, plane.normal)
  IN dist < 0 /\ dist * dist > bs.radius * bs.radius * len2

sphereInFrustum(f, bs) == \A i \in 1..6 : ~Outside(f[i], bs)

\* ------------------------------------------------------------------- scene
\* Node: position and the cached object-space bounding sphere.
MkNode(pos, radius) ==
  [m_pos |-> pos, m_boundingSphere |-> [center |-> <<0, 0, 0>>, radius |-> radius]]

\* Node::boundingSphere: the cached sphere moved by the node's position.
\* The cached sphere, not moved to the node's position.
boundingSphereAtOrigin(node) == node.m_boundingSphere

boundingSphere(node) ==
  [center |-> VecAdd(node.m_boundingSphere.center, node.m_pos),
   radius |-> node.m_boundingSphere.radius]

\* The scene main() builds: three nodes along the x axis.
SceneNodes ==
  << MkNode(<<0, 0, 0>>, 1), MkNode(<<4, 0, 0>>, 1), MkNode(<<-9, 0, 0>>, 1) >>

\* Positions the camera can be moved to by the input handling.
CameraPositions == { <<0, 0, 0>>, <<-8, 0, 0>> }

\* Nodes addNode is given while the loop runs, and how many of them.
AddedNodes == { MkNode(<<-8, 0, 0>>, 1) }

MaxAddedNodes == 1

CameraHalfExtent == 3

LightHalfExtent == 5

VARIABLES
  pc,                    \* position of the CPU thread in mainLoop / update
  running,               \* mainLoop's `running`
  res,                   \* update's `res`
  failure,               \* "none", "exception" (uncaught VK_CHECK throw), "ub"
  surfaceExtent,         \* current extent of the window surface
  surfaceChanges,        \* how often the surface changed so far
  swapchain,             \* m_context.swapchain: [extent, image_count]
  swapchainDimensions,   \* m_context.swapchainDimensions (extent)
  colorExtent,           \* extent the colour and depth images were created with
  imgOwner,              \* per swapchain image: "app" (acquired) or "pe"
  perFrame,              \* m_context.perFrame
  inflight,              \* per slot: queue submissions not yet completed
  recycledSemaphores,    \* m_context.recycledSemaphores
  currentIndex,          \* m_context.currentIndex
  cmd,                   \* commands update() has recorded into the slot's buffer
  cmdEnded,              \* vkEndCommandBuffer succeeded on it
  shadowLayout,          \* layout of m_context.shadowImage in recording order
  m_nodes,
  m_lightPos,
  cameraPos,
  m_visibleNodes,
  m_shadowCastingNodes,
  steps,                 \* calls made so far by the current update()
  acquireSem,            \* semaphore handed to the acquisition that succeeded
  submitInfo,            \* VkSubmitInfo of this frame's vkQueueSubmit
  presentInfo,           \* VkPresentInfoKHR of this frame's vkQueuePresentKHR
  orphans,               \* PerFrame sets dropped by perFrame.clear() with live handles
  destroyed,             \* what ~Engine has released so far, in order
  armed,                 \* semaphores an acquisition will signal and no submission waits on yet
  meshBufferMap,         \* m_context.meshBufferMap: mesh -> uploaded buffer pair
  uploads,               \* meshes handed to uploadBuffer, one entry per buffer pair
  textureMap,            \* m_context.textureMap: texture -> TextureData
  textureImages,         \* textures handed to vmaCreateImage, one entry per image
  modelUBOBufferSizePerNode,   \* m_context.modelUBOBufferSizePerNode
  shadowUBOBufferSizePerNode,  \* m_context.shadowUBOBufferSizePerNode
  call,                  \* the library call under way and its arguments
  ret                    \* what that call returned

vars ==
  << pc, running, res, failure, surfaceExtent, surfaceChanges, swapchain,
     swapchainDimensions, colorExtent, imgOwner, perFrame, inflight,
     recycledSemaphores, currentIndex, cmd, cmdEnded, shadowLayout,
     m_nodes, m_lightPos, cameraPos, m_visibleNodes, m_shadowCastingNodes,
     steps, acquireSem, submitInfo, presentInfo, orphans, destroyed,
     armed,
     meshBufferMap, uploads, textureMap, textureImages,
     modelUBOBufferSizePerNode, shadowUBOBufferSizePerNode, call, ret >>

\* The variables of the frame loop.
engineVars ==
  << pc, running, res, failure, surfaceExtent, surfaceChanges, swapchain,
     swapchainDimensions, colorExtent, imgOwner, perFrame, inflight,
     recycledSemaphores, currentIndex, cmd, cmdEnded, shadowLayout,
     m_nodes, m_lightPos, cameraPos, m_visibleNodes, m_shadowCastingNodes,
     steps, acquireSem, submitInfo, presentInfo, orphans, destroyed,
     armed >>

\* Groups for UNCHANGED.
sceneVars == << m_nodes, m_lightPos, cameraPos >>
flagVars == << m_visibleNodes, m_shadowCastingNodes >>
surfaceVars == << surfaceExtent, surfaceChanges >>
swapVars == << swapchain, swapchainDimensions, colorExtent >>
recVars == << cmd, cmdEnded, shadowLayout >>
semVars == << recycledSemaphores >>
infoVars == << acquireSem, submitInfo, presentInfo >>
teardownVars == << orphans, destroyed >>
textureVars == << textureMap, textureImages >>
strideVars == << modelUBOBufferSizePerNode, shadowUBOBufferSizePerNode >>
meshVars == << meshBufferMap, uploads, textureVars, strideVars >>
libVars == << call, ret >>
auxVars == << meshVars, libVars >>

NoInfo == [wait |-> VK_NULL_HANDLE, signal |-> VK_NULL_HANDLE, slot |-> 0]

\* ---------------------------------------------------------------- PerFrame
\* A PerFrame whose fence is created without VK_FENCE_CREATE_SIGNALED_BIT.
InitPerFrameUnsignaled ==
  [queue_submit_fence |-> "unsignaled",
   primary_command_pool |-> TRUE,
   primary_command_buffer |-> TRUE,
   swapchain_acquire_semaphore |-> VK_NULL_HANDLE,
   swapchain_release_semaphore |-> VK_NULL_HANDLE,
   uniforms |-> FALSE]

\* A default-constructed PerFrame after initPerFrame: fence created
\* signaled, command pool and buffer created, everything else null.
InitPerFrame ==
  [queue_submit_fence |-> "signaled",
   primary_command_pool |-> TRUE,
   primary_command_buffer |-> TRUE,
   swapchain_acquire_semaphore |-> VK_NULL_HANDLE,
   swapchain_release_semaphore |-> VK_NULL_HANDLE,
   uniforms |-> FALSE]

\* initUBO: scene, model and shadow uniform buffers and descriptor sets of
\* every slot (prepare only).
InitUBO(slots) == [i \in 1..Len(slots) |-> [slots[i] EXCEPT !.uniforms = TRUE]]

\* The slots initSwapchain leaves behind for image_count images.
NewSlots(n) == [i \in 1..n |-> InitPerFrame]

Stale(r) == r \in {VK_SUBOPTIMAL_KHR, VK_ERROR_OUT_OF_DATE_KHR}

Range(s) == {s[i] : i \in 1..Len(s)}

\* No library call is under way; the mesh buffers are not looked at.
NoCall == [fn |-> "none"]

LibraryIdle ==
  /\ meshBufferMap = << >>
  /\ uploads = << >>
  /\ textureMap = << >>
  /\ textureImages = << >>
  /\ modelUBOBufferSizePerNode = 0
  /\ shadowUBOBufferSizePerNode = 0
  /\ call = NoCall
  /\ ret = NoCall

\* ------------------------------------------------------------------- Init
\* The state prepare() leaves: swapchain built for the window, slots
\* initialised, uniforms allocated, colour and depth images of that size.
Init ==
  /\ pc = "loop"
  /\ running = TRUE
  /\ res = VK_SUCCESS
  /\ failure = "none"
  /\ surfaceExtent = WindowExtent
  /\ surfaceChanges = 0
  /\ \E n \in ImageCounts :
       /\ swapchain = [extent |-> surfaceExtent, image_count |-> n]
       /\ perFrame = InitUBO(NewSlots(n))
       /\ inflight = [i \in 1..n |-> 0]
       /\ imgOwner = [i \in 1..n |-> "pe"]
  /\ swapchainDimensions = surfaceExtent
  /\ colorExtent = surfaceExtent
  /\ recycledSemaphores = << >>
  /\ currentIndex = 1
  /\ cmd = << >>
  /\ cmdEnded = FALSE
  /\ shadowLayout = UNDEFINED
  /\ m_nodes = SceneNodes
  /\ m_lightPos = <<0, 5, 5>>
  /\ cameraPos \in CameraPositions
  /\ m_visibleNodes = << >>
  /\ m_shadowCastingNodes = << >>
  /\ steps = << >>
  /\ acquireSem = VK_NULL_HANDLE
  /\ submitInfo = NoInfo
  /\ presentInfo = NoInfo
  /\ orphans = 0
  /\ destroyed = << >>
  /\ armed = {}
  /\ LibraryIdle

\* ------------------------------------------------------------ command list
Barrier(image, old, new) ==
  [op |-> "barrier", image |-> image, old |-> old, new |-> new, draws |-> << >>]

RenderPass(name, draws) ==
  [op |-> name, image |-> "shadow", old |-> "", new |-> "", draws |-> draws]

\* The node indices a draw loop visits, in order: those whose flag is set.
RECURSIVE DrawList(_, _, _)
DrawList(flags, i, n) ==
  IF i > n THEN << >>
  ELSE (IF flags[i] THEN <<i>> ELSE << >>) \o DrawList(flags, i + 1, n)

\* Layout of the shadow image after the commands of `cmds`, from `layout`.
\* A barrier whose oldLayout is neither UNDEFINED nor the current layout
\* leaves the image in no defined layout.
RECURSIVE LayoutAfter(_, _)
LayoutAfter(layout, cmds) ==
  IF cmds = << >> THEN layout
  ELSE LET c == Head(cmds)
           next == IF c.op = "barrier" /\ c.image = "shadow"
                   THEN (IF c.old \in {UNDEFINED, layout} THEN c.new ELSE "MISMATCH")
                   ELSE layout
       IN LayoutAfter(next, Tail(cmds))

\* The images a render pass attaches, each with the layout its
\* VkRenderingAttachmentInfo declares: the shadow pass the shadow image as
\* depth attachment; the colour pass the MSAA colour image, the swapchain
\* image it resolves to, and the main depth image.
DEPTH_ATTACHMENT_OPTIMAL == "VK_IMAGE_LAYOUT_DEPTH_ATTACHMENT_OPTIMAL"
COLOR_ATTACHMENT_OPTIMAL == "VK_IMAGE_LAYOUT_COLOR_ATTACHMENT_OPTIMAL"

Attachments(pass) ==
  IF pass = "shadowPass"
  THEN {[image |-> "shadow", imageLayout |-> DEPTH_ATTACHMENT_OPTIMAL]}
  ELSE {[image |-> "color", imageLayout |-> COLOR_ATTACHMENT_OPTIMAL],
        [image |-> "swapchain", imageLayout |-> COLOR_ATTACHMENT_OPTIMAL],
        [image |-> "depth", imageLayout |-> DEPTH_ATTACHMENT_OPTIMAL]}

\* The layout of the depth aspect: DEPTH_STENCIL_ATTACHMENT_OPTIMAL is
\* DEPTH_ATTACHMENT_OPTIMAL for the depth aspect of an image.
DepthAspect(layout) ==
  IF layout = DEPTH_STENCIL_ATTACHMENT_OPTIMAL THEN DEPTH_ATTACHMENT_OPTIMAL
  ELSE layout

\* The layout `image` is in after the commands of `cmds`: the newLayout of
\* the last barrier on it, or, with no barrier on it, the initialLayout
\* every image of the engine is created with.
RECURSIVE ImageLayoutAfter(_, _)
ImageLayoutAfter(image, cmds) ==
  IF cmds = << >> THEN UNDEFINED
  ELSE LET c == cmds[Len(cmds)]
       IN IF c.op = "barrier" /\ c.image = image THEN c.new
          ELSE ImageLayoutAfter(image, SubSeq(cmds, 1, Len(cmds) - 1))

\* ------------------------------------------------------------------ helpers
AllIdle == \A s \in 1..Len(inflight) : inflight[s] = 0

\* An uncaught exception leaves mainLoop and main: std::terminate.
Throw == pc' = "terminated" /\ failure' = "exception"

\* Semaphore handles are opaque: vkCreateSemaphore returns a handle that no
\* variable of the program holds, here the least such number.
HeldSemaphores ==
  Range(recycledSemaphores)
    \cup {perFrame[i].swapchain_acquire_semaphore : i \in 1..Len(perFrame)}
    \cup {perFrame[i].swapchain_release_semaphore : i \in 1..Len(perFrame)}
    \cup {acquireSem, submitInfo.wait, submitInfo.signal, presentInfo.wait}

NewSemaphore ==
  CHOOSE n \in 1..(Cardinality(HeldSemaphores) + 1) :
    /\ n \notin HeldSemaphores
    /\ \A m \in 1..(n - 1) : m \in HeldSemaphores

\* Images the presentation engine can hand out.
Available == {i \in 1..Len(imgOwner) : imgOwner[i] = "pe"}

\* vkWaitForFences(fence, UINT64_MAX) returns once the fence is signaled.
WaitForFencesNoWait(pf) == TRUE

WaitForFences(pf) == pf.queue_submit_fence = "signaled"

\* ------------------------------------------------------------ mainLoop head
\* One pass over the event queue: quit / escape clear `running`, the camera
\* moves; update() is then called whatever `running` is.
PollEvents ==
  /\ pc = "loop"
  /\ running
  /\ running' \in BOOLEAN
  /\ cameraPos' \in CameraPositions
  /\ pc' = "acquire"
  /\ steps' = << >>
  /\ acquireSem' = VK_NULL_HANDLE
  /\ submitInfo' = NoInfo
  /\ presentInfo' = NoInfo
  /\ res' = VK_SUCCESS
  /\ cmd' = << >>
  /\ cmdEnded' = FALSE
  /\ UNCHANGED << failure, surfaceVars, swapVars, imgOwner, perFrame,
                  inflight, semVars, currentIndex, shadowLayout, m_nodes,
                  m_lightPos, flagVars >>
  /\ UNCHANGED << teardownVars, auxVars, armed >>

\* The loop has ended: vkDeviceWaitIdle.
ExitLoop ==
  /\ pc = "loop"
  /\ ~running
  /\ AllIdle
  /\ pc' = "exited"
  /\ UNCHANGED << running, res, failure, surfaceVars, swapVars, imgOwner,
                  perFrame, inflight, semVars, currentIndex, recVars, sceneVars,
                  flagVars, steps, infoVars >>
  /\ UNCHANGED << teardownVars, auxVars, armed >>

\* ------------------------------------------------ acquireNextSwapchainImage
\* `stalePc` is where update() goes on a stale result, "check" otherwise.
AcquireNextSwapchainImage(stalePc) ==
  LET created == recycledSemaphores = << >>
      sem == IF created THEN NewSemaphore
             ELSE recycledSemaphores[Len(recycledSemaphores)]
      rest == IF created THEN << >>
              ELSE SubSeq(recycledSemaphores, 1, Len(recycledSemaphores) - 1)
      after(r) == IF Stale(r) THEN stalePc ELSE "check"
  IN
  \/ \* vkCreateSemaphore fails
     /\ created
     /\ Throw
     /\ UNCHANGED << res, imgOwner, perFrame, semVars, currentIndex, recVars,
                     acquireSem, steps, armed >>
  \/ \* no image is handed out
     \E r \in {VK_ERROR_OUT_OF_DATE_KHR, VK_ERROR_DEVICE_LOST} :
       /\ res' = r
       /\ recycledSemaphores' = Append(rest, sem)
       /\ steps' = Append(steps, "acquireFail")
       /\ pc' = after(r)
       /\ UNCHANGED << failure, imgOwner, perFrame, currentIndex, recVars,
                       acquireSem, armed >>
  \/ \* an image is handed out, but the swapchain is suboptimal
     \E img \in Available :
       /\ res' = VK_SUBOPTIMAL_KHR
       /\ recycledSemaphores' = Append(rest, sem)
       /\ imgOwner' = [imgOwner EXCEPT ![img] = "app"]
       /\ currentIndex' = img
       /\ steps' = Append(steps, "acquireFail")
       /\ pc' = after(VK_SUBOPTIMAL_KHR)
       /\ armed' = armed \cup {sem}
       /\ UNCHANGED << failure, perFrame, recVars, acquireSem >>
  \/ \* success: wait for the slot's fence, reset fence and command pool,
     \* recycle the slot's old semaphore and store the new one
     \E img \in Available :
       LET old == perFrame[img].swapchain_acquire_semaphore IN
       /\ WaitForFences(perFrame[img])
       /\ res' = VK_SUCCESS
       /\ recycledSemaphores' =
            IF old # VK_NULL_HANDLE THEN Append(rest, old) ELSE rest
       /\ perFrame' = [perFrame EXCEPT
                         ![img].queue_submit_fence = "unsignaled",
                         ![img].swapchain_acquire_semaphore = sem]
       /\ imgOwner' = [imgOwner EXCEPT ![img] = "app"]
       /\ currentIndex' = img
       /\ cmd' = << >>
       /\ cmdEnded' = FALSE
       /\ acquireSem' = sem
       /\ armed' = armed \cup {sem}
       /\ steps' = Append(steps, "acquire")
       /\ pc' = "check"
       /\ UNCHANGED << failure, shadowLayout >>

\* update(): the first acquisition.
Acquire ==
  /\ pc = "acquire"
  /\ AcquireNextSwapchainImage("resize_acquire")
  /\ UNCHANGED << running, surfaceVars, swapVars, inflight, sceneVars,
                  flagVars, submitInfo, presentInfo >>
  /\ UNCHANGED << teardownVars, auxVars >>

\* update(): the acquisition repeated after resize().
AcquireRetry ==
  /\ pc = "reacquire"
  /\ AcquireNextSwapchainImage("check")
  /\ UNCHANGED << running, surfaceVars, swapVars, inflight, sceneVars,
                  flagVars, submitInfo, presentInfo >>
  /\ UNCHANGED << teardownVars, auxVars >>

\* ------------------------------------------------------------------ resize
\* initSwapchain as resize() runs it: the build may fail (logged, nothing
\* replaced); otherwise the swapchain and its dimensions are replaced and
\* perFrame is cleared, resized and initialised by initPerFrame alone.
\* perFrame.clear() destroys nothing: the fences, pools, semaphores and
\* uniform buffers of the old slots stay alive with no handle left to them.
InitSwapchain(retpc) ==
  \/ \* swapchain_builder.build() fails
     /\ pc' = retpc
     /\ steps' = Append(steps, "resize")
     /\ UNCHANGED << failure, swapVars, imgOwner, perFrame, inflight, orphans, armed >>
  \/ \* a VK_CHECK of initPerFrame throws
     /\ Throw
     /\ UNCHANGED << swapVars, imgOwner, perFrame, inflight, steps, orphans,
                     armed >>
  \/ \E n \in ImageCounts :
       /\ swapchain' = [extent |-> surfaceExtent, image_count |-> n]
       /\ swapchainDimensions' = surfaceExtent
       /\ perFrame' = NewSlots(n)
       /\ orphans' = orphans + Len(perFrame)
       /\ armed' = armed \cap Range(recycledSemaphores)
       /\ inflight' = [i \in 1..n |-> 0]
       /\ imgOwner' = [i \in 1..n |-> "pe"]
       /\ pc' = retpc
       /\ steps' = Append(Append(steps, "resize"), "initSwapchain")
       /\ UNCHANGED << failure, colorExtent >>

\* resize(): nothing to do when the surface still has the swapchain's
\* extent; otherwise wait for the device and rebuild the swapchain.
Resize(retpc) ==
  \/ \* vkGetPhysicalDeviceSurfaceCapabilitiesKHR fails
     /\ Throw
     /\ UNCHANGED << swapVars, imgOwner, perFrame, inflight, steps, orphans,
                     armed >>
  \/ /\ surfaceExtent = swapchainDimensions
     /\ pc' = retpc
     /\ steps' = Append(steps, "resize")
     /\ UNCHANGED << failure, swapVars, imgOwner, perFrame, inflight, orphans, armed >>
  \/ /\ surfaceExtent # swapchainDimensions
     /\ AllIdle
     /\ InitSwapchain(retpc)

\* update(): resize after a stale acquisition, then acquire again.
ResizeAfterAcquire ==
  /\ pc = "resize_acquire"
  /\ Resize("reacquire")
  /\ UNCHANGED << running, res, surfaceVars, semVars, currentIndex, recVars,
                  sceneVars, flagVars, infoVars >>
  /\ UNCHANGED << destroyed, auxVars >>

\* update(): resize after a stale present; update() then returns.
ResizeAfterPresent ==
  /\ pc = "resize_present"
  /\ Resize("loop")
  /\ UNCHANGED << running, res, surfaceVars, semVars, currentIndex, recVars,
                  sceneVars, flagVars, infoVars >>
  /\ UNCHANGED << destroyed, auxVars >>

\* update(): `res != VK_SUCCESS` after the acquisition(s).
AcquisitionFailedLax(r) == r \notin {VK_SUCCESS, VK_SUBOPTIMAL_KHR}

AcquisitionFailed(r) == r # VK_SUCCESS

\* update(): the frame is given up: vkQueueWaitIdle, return.
DropFrame ==
  /\ pc = "check"
  /\ AcquisitionFailed(res)
  /\ AllIdle
  /\ pc' = "loop"
  /\ steps' = Append(steps, "waitIdle")
  /\ UNCHANGED << running, res, failure, surfaceVars, swapVars, imgOwner,
                  perFrame, inflight, semVars, currentIndex, recVars, sceneVars,
                  flagVars, infoVars >>
  /\ UNCHANGED << teardownVars, auxVars, armed >>

\* --------------------------------------------------------------- updateUBO
\* The two frusta updateUBO extracts, and the flag of every node.
shadowVP == OrthoVP(m_lightPos, LightHalfExtent)

sceneVP == OrthoVP(cameraPos, CameraHalfExtent)

ShadowFlags ==
  [i \in 1..Len(m_nodes) |->
     sphereInFrustum(extractFrustum(shadowVP), boundingSphere(m_nodes[i]))]

VisibleFlags ==
  [i \in 1..Len(m_nodes) |->
     sphereInFrustum(extractFrustum(sceneVP), boundingSphere(m_nodes[i]))]

\* std::vector<bool>::resize(n): the first n entries are kept, new ones are
\* false.
VectorResizeKeepsSize(v, n) == v

VectorResize(v, n) == [i \in 1..n |-> IF i <= Len(v) THEN v[i] ELSE FALSE]

\* The loop of updateUBO over i < m_nodes.size(): entry i of the flag vector
\* `v` is overwritten with the value computed for node i.
WriteFlags(v, fresh) ==
  [i \in 1..Len(v) |-> IF i <= Len(fresh) THEN fresh[i] ELSE v[i]]

\* update(): the flag vectors are resized, then updateUBO writes the scene,
\* shadow and model uniforms of the slot and recomputes both flags of
\* every node.  A write through a null allocation is undefined behaviour:
\* the process dies or goes on.
UpdateUBO ==
  /\ pc = "check"
  /\ ~AcquisitionFailed(res)
  /\ \/ \* vmaCopyMemoryToAllocation fails
        /\ Throw
        /\ UNCHANGED << flagVars, steps >>
     \/ /\ ~perFrame[currentIndex].uniforms
        /\ pc' = "terminated"
        /\ failure' = "ub"
        /\ UNCHANGED << flagVars, steps >>
     \/ /\ pc' = "shadow"
        /\ m_shadowCastingNodes' =
             WriteFlags(VectorResize(m_shadowCastingNodes, Len(m_nodes)), ShadowFlags)
        /\ m_visibleNodes' =
             WriteFlags(VectorResize(m_visibleNodes, Len(m_nodes)), VisibleFlags)
        /\ steps' = Append(steps, "updateUBO")
        /\ UNCHANGED failure
  /\ UNCHANGED << running, res, surfaceVars, swapVars, imgOwner, perFrame,
                  inflight, semVars, currentIndex, recVars, sceneVars, infoVars >>
  /\ UNCHANGED << teardownVars, auxVars, armed >>

\* ------------------------------------------------------------------ render
\* renderShadow: one draw per node whose shadow flag is set.
ShadowDrawsWrongFlag == DrawList(m_visibleNodes, 1, Len(m_nodes))

ShadowDraws == DrawList(m_shadowCastingNodes, 1, Len(m_nodes))

\* render(): one draw per node whose visible flag is set.
ColorDraws == DrawList(m_visibleNodes, 1, Len(m_nodes))

\* render(): the barrier between the shadow pass and the colour pass.
ShadowToReadBarrierMissing == << >>

ShadowToReadBarrier ==
  << Barrier("shadow", DEPTH_STENCIL_ATTACHMENT_OPTIMAL, SHADER_READ_ONLY_OPTIMAL) >>

\* render(), first part: begin the command buffer, barrier the shadow image
\* to the depth layout, record the shadow pass, barrier it to shader-read.
RecordShadow ==
  /\ pc = "shadow"
  /\ \/ \* vkBeginCommandBuffer fails
        /\ Throw
        /\ UNCHANGED << recVars, steps >>
     \/ LET new == << Barrier("shadow", UNDEFINED, DEPTH_STENCIL_ATTACHMENT_OPTIMAL),
                      RenderPass("shadowPass", ShadowDraws) >>
                   \o ShadowToReadBarrier
        IN /\ cmd' = cmd \o new
           /\ shadowLayout' = LayoutAfter(shadowLayout, new)
           /\ pc' = "color"
           /\ steps' = Append(steps, "shadow")
           /\ UNCHANGED << failure, cmdEnded >>
  /\ UNCHANGED << running, res, surfaceVars, swapVars, imgOwner, perFrame,
                  inflight, semVars, currentIndex, sceneVars, flagVars, infoVars >>
  /\ UNCHANGED << teardownVars, auxVars, armed >>

\* render(), second part: colour pass, the swapchain image to present
\* layout, the shadow image back to the depth layout, end of the buffer.
RecordColor ==
  /\ pc = "color"
  /\ LET new == << Barrier("color", UNDEFINED, "VK_IMAGE_LAYOUT_COLOR_ATTACHMENT_OPTIMAL"),
                   Barrier("swapchain", UNDEFINED, "VK_IMAGE_LAYOUT_COLOR_ATTACHMENT_OPTIMAL"),
                   RenderPass("colorPass", ColorDraws),
                   Barrier("swapchain", "VK_IMAGE_LAYOUT_COLOR_ATTACHMENT_OPTIMAL",
                           "VK_IMAGE_LAYOUT_PRESENT_SRC_KHR"),
                   Barrier("shadow", SHADER_READ_ONLY_OPTIMAL,
                           DEPTH_STENCIL_ATTACHMENT_OPTIMAL) >>
     IN /\ cmd' = cmd \o new
        /\ shadowLayout' = LayoutAfter(shadowLayout, new)
        /\ \/ \* vkEndCommandBuffer fails
              /\ Throw
              /\ UNCHANGED << cmdEnded, steps >>
           \/ /\ cmdEnded' = TRUE
              /\ pc' = "submit"
              /\ steps' = Append(steps, "color")
              /\ UNCHANGED failure
  /\ UNCHANGED << running, res, surfaceVars, swapVars, imgOwner, perFrame,
                  inflight, semVars, currentIndex, sceneVars, flagVars, infoVars >>
  /\ UNCHANGED << teardownVars, auxVars, armed >>

\* The semaphores render() and presentImage() name.
SubmitWaitSemaphore(pf) == pf.swapchain_acquire_semaphore

PresentWaitsOnAcquire(pf) == pf.swapchain_acquire_semaphore

PresentWaitSemaphore(pf) == pf.swapchain_release_semaphore

\* render(), last part: create the slot's release semaphore if it has none,
\* then vkQueueSubmit waiting on the acquire semaphore, signalling the
\* release semaphore and the slot's fence.
Submit ==
  /\ pc = "submit"
  /\ \/ \* vkCreateSemaphore or vkQueueSubmit fails
        /\ Throw
        /\ UNCHANGED << perFrame, inflight, submitInfo, steps, armed >>
     \/ LET make == perFrame[currentIndex].swapchain_release_semaphore = VK_NULL_HANDLE
            release == IF make THEN NewSemaphore
                       ELSE perFrame[currentIndex].swapchain_release_semaphore
        IN /\ perFrame' = [perFrame EXCEPT
                             ![currentIndex].swapchain_release_semaphore = release]
           /\ submitInfo' = [wait |-> SubmitWaitSemaphore(perFrame[currentIndex]),
                             signal |-> release,
                             slot |-> currentIndex]
           /\ inflight' = [inflight EXCEPT ![currentIndex] = @ + 1]
           /\ armed' = armed \ {SubmitWaitSemaphore(perFrame[currentIndex])}
           /\ pc' = "present"
           /\ steps' = Append(steps, "submit")
           /\ UNCHANGED failure
  /\ UNCHANGED << running, res, surfaceVars, swapVars, imgOwner,
                  recycledSemaphores, currentIndex, recVars, sceneVars, flagVars,
                  acquireSem, presentInfo >>
  /\ UNCHANGED << teardownVars, auxVars >>

\* presentImage and what update() does with its result: resize on a stale
\* result, a log line on any other error, and return.
Present ==
  /\ pc = "present"
  /\ \E r \in VkResults :
       /\ res' = r
       /\ imgOwner' = IF r \in {VK_SUCCESS, VK_SUBOPTIMAL_KHR}
                      THEN [imgOwner EXCEPT ![currentIndex] = "pe"]
                      ELSE imgOwner
       /\ pc' = IF Stale(r) THEN "resize_present" ELSE "loop"
  /\ presentInfo' = [wait |-> PresentWaitSemaphore(perFrame[currentIndex]),
                     signal |-> VK_NULL_HANDLE,
                     slot |-> currentIndex]
  /\ steps' = Append(steps, "present")
  /\ UNCHANGED << running, failure, surfaceVars, swapVars, perFrame, inflight,
                  semVars, currentIndex, recVars, sceneVars, flagVars,
                  acquireSem, submitInfo >>
  /\ UNCHANGED << teardownVars, auxVars, armed >>

\* ----------------------------------------------------------------- addNode
\* Engine::addNode: the node is appended to m_nodes, nothing else.
PushNode(node) == m_nodes' = Append(m_nodes, node)

\* addNode called between two frames of the loop.
AddNode ==
  /\ pc = "loop"
  /\ running
  /\ Len(m_nodes) < Len(SceneNodes) + MaxAddedNodes
  /\ \E node \in AddedNodes : PushNode(node)
  /\ UNCHANGED << pc, running, res, failure, surfaceVars, swapVars, imgOwner,
                  perFrame, inflight, semVars, currentIndex, recVars, m_lightPos,
                  cameraPos, flagVars, steps, infoVars, teardownVars, auxVars,
                  armed >>

\* ----------------------------------------------------------------- ~Engine
\* What ~Engine releases, in the order of its statements.
DestructorOrder ==
  << "vkDeviceWaitIdle", "perFrame", "recycledSemaphores", "pipeline",
     "pipelineLayout", "swapchainImageViews", "swapchain", "surface",
     "descriptorSetLayouts", "descriptorPool", "colorImages", "depthImage",
     "shadowImage", "shadowSampler", "shadowPipelineLayout", "shadowPipeline",
     "shadowDescriptorSetLayout", "meshBufferMap", "textureMap",
     "textureSampler", "vmaAllocator", "commandPool", "device" >>

\* main() returns after mainLoop: ~Engine waits for the device, tears down
\* the slots perFrame holds now, and releases the rest.
Destructor ==
  /\ pc = "exited"
  /\ AllIdle
  /\ pc' = "destroyed"
  /\ destroyed' = DestructorOrder
  /\ perFrame' = << >>
  /\ inflight' = << >>
  /\ imgOwner' = << >>
  /\ UNCHANGED << running, res, failure, surfaceVars, swapVars, semVars,
                  currentIndex, recVars, sceneVars, flagVars, steps, infoVars,
                  orphans, auxVars, armed >>

\* ------------------------------------------------------------- environment
\* The GPU completes a submission of slot s and signals the slot's fence.
GpuComplete ==
  /\ pc \notin {"terminated", "exited", "destroyed"}
  /\ \E s \in 1..Len(inflight) :
       /\ inflight[s] > 0
       /\ inflight' = [inflight EXCEPT ![s] = @ - 1]
       /\ perFrame' = [perFrame EXCEPT ![s].queue_submit_fence = "signaled"]
  /\ UNCHANGED << pc, running, res, failure, surfaceVars, swapVars, imgOwner,
                  semVars, currentIndex, recVars, sceneVars, flagVars, steps,
                  infoVars >>
  /\ UNCHANGED << teardownVars, auxVars, armed >>

\* The window surface takes another extent.
SurfaceChange ==
  /\ pc \notin {"terminated", "exited", "destroyed"}
  /\ surfaceChanges < MaxSurfaceChanges
  /\ surfaceChanges' = surfaceChanges + 1
  /\ surfaceExtent' \in Extents \ {surfaceExtent}
  /\ UNCHANGED << pc, running, res, failure, swapVars, imgOwner, perFrame,
                  inflight, semVars, currentIndex, recVars, sceneVars, flagVars,
                  steps, infoVars >>
  /\ UNCHANGED << teardownVars, auxVars, armed >>

Next ==
  \/ PollEvents
  \/ ExitLoop
  \/ Acquire
  \/ ResizeAfterAcquire
  \/ AcquireRetry
  \/ DropFrame
  \/ UpdateUBO
  \/ RecordShadow
  \/ RecordColor
  \/ Submit
  \/ Present
  \/ ResizeAfterPresent
  \/ GpuComplete
  \/ SurfaceChange
  \/ AddNode
  \/ Destructor

Spec == Init /\ [][Next]_vars

TypeOK ==
  /\ pc \in {"loop", "acquire", "resize_acquire", "reacquire", "check", "shadow",
             "color", "submit", "present", "resize_present", "exited", "terminated",
             "destroyed"}
  /\ Len(perFrame) = Len(inflight)
  /\ Len(perFrame) = Len(imgOwner)
  /\ (pc \in {"shadow", "color", "submit", "present"}) => currentIndex \in 1..Len(perFrame)
  /\ armed \subseteq Range(recycledSemaphores)
                \cup {perFrame[i].swapchain_acquire_semaphore : i \in 1..Len(perFrame)}

\* ================================================================= library
\* The functions of frustum_culling.cpp and node.cpp called on their own,
\* outside the frame loop.  The engine does not run in these
\* specifications: its variables keep the values of EngineNotRunning.
frameVars ==
  << running, res, failure, surfaceExtent, surfaceChanges, swapchain,
     swapchainDimensions, colorExtent, imgOwner, perFrame, inflight,
     recycledSemaphores, currentIndex, cmd, cmdEnded, shadowLayout,
     m_lightPos, cameraPos, m_visibleNodes, m_shadowCastingNodes,
     steps, acquireSem, submitInfo, presentInfo, orphans, destroyed,
     armed >>

\* An Engine that has been constructed and not prepared.
EngineNotRunning ==
  /\ running = FALSE
  /\ res = VK_SUCCESS
  /\ failure = "none"
  /\ surfaceExtent = WindowExtent
  /\ surfaceChanges = 0
  /\ swapchain = [extent |-> WindowExtent, image_count |-> 0]
  /\ swapchainDimensions = WindowExtent
  /\ colorExtent = WindowExtent
  /\ imgOwner = << >>
  /\ perFrame = << >>
  /\ inflight = << >>
  /\ recycledSemaphores = << >>
  /\ currentIndex = 1
  /\ cmd = << >>
  /\ cmdEnded = FALSE
  /\ shadowLayout = UNDEFINED
  /\ m_lightPos = <<0, 5, 5>>
  /\ cameraPos = <<0, 0, 0>>
  /\ m_visibleNodes = << >>
  /\ m_shadowCastingNodes = << >>
  /\ steps = << >>
  /\ acquireSem = VK_NULL_HANDLE
  /\ submitInfo = NoInfo
  /\ presentInfo = NoInfo
  /\ orphans = 0
  /\ destroyed = << >>
  /\ armed = {}

\* ------------------------------------------------------------ 4x4 matrices
\* m[c][r] is column c, row r (glm).
VecSub(a, b) == <<a[1] - b[1], a[2] - b[2], a[3] - b[3]>>

MatMul(a, b) ==
  [c \in 1..4 |->
     [r \in 1..4 |->
        a[1][r] * b[c][1] + a[2][r] * b[c][2] + a[3][r] * b[c][3] + a[4][r] * b[c][4]]]

MatVec(m, v) ==
  [r \in 1..4 |-> m[1][r] * v[1] + m[2][r] * v[2] + m[3][r] * v[3] + m[4][r] * v[4]]

\* The matrix applied to the point p (w = 1), as a 3-vector.
TransformPoint(m, p) ==
  LET q == MatVec(m, <<p[1], p[2], p[3], 1>>) IN <<q[1], q[2], q[3]>>

\* Orientations are quarter turns about the z axis: m_quat = k stands for
\* the quaternion of the rotation by k * 90 degrees.
QuarterTurns == 0..3

Cos4(k) == <<1, 0, -1, 0>>[(k % 4) + 1]

Sin4(k) == <<0, 1, 0, -1>>[(k % 4) + 1]

\* glm::mat4_cast of that quaternion.
mat4_cast(k) ==
  << <<Cos4(k), Sin4(k), 0, 0>>,
     <<-Sin4(k), Cos4(k), 0, 0>>,
     <<0, 0, 1, 0>>,
     <<0, 0, 0, 1>> >>

\* ------------------------------------------------- computeBoundingSphere
\* Floats are fixed-point numbers here: sqrt and the divisions round down
\* to a whole unit.
distance2(a, b) == Dot(VecSub(a, b), VecSub(a, b))

ISqrt(n) == CHOOSE r \in 0..n : r * r <= n /\ (r + 1) * (r + 1) > n

Half(x) == x \div 2

\* The scan `if (d > maxDist) { maxDist = d; a = i; }` from entry i on.
RECURSIVE Farthest(_, _, _, _, _)
Farthest(v, p, i, best, maxDist) ==
  IF i > Len(v) THEN best
  ELSE LET d == distance2(v[i], p)
       IN IF d > maxDist THEN Farthest(v, p, i + 1, i, d)
          ELSE Farthest(v, p, i + 1, best, maxDist)

\* Step 2 for one vertex: a vertex outside the sphere moves the centre
\* towards it and enlarges the radius.
GrowKeepsCentre(sphere, p) ==
  LET d == ISqrt(distance2(p, sphere.center))
  IN IF d > sphere.radius
     THEN [center |-> sphere.center, radius |-> Half(sphere.radius + d)]
     ELSE sphere

Grow(sphere, p) ==
  LET d == ISqrt(distance2(p, sphere.center))
      newRadius == Half(sphere.radius + d)
      diff == VecSub(p, sphere.center)
      shift == newRadius - sphere.radius
  IN IF d > sphere.radius
     THEN [center |-> VecAdd(sphere.center,
                             << (diff[1] * shift) \div d,
                                (diff[2] * shift) \div d,
                                (diff[3] * shift) \div d >>),
           radius |-> newRadius]
     ELSE sphere

RECURSIVE GrowAll(_, _, _)
GrowAll(sphere, v, i) ==
  IF i > Len(v) THEN sphere ELSE GrowAll(Grow(sphere, v[i]), v, i + 1)

\* computeBoundingSphere(const std::vector<glm::vec3> &) on a non-empty v.
computeBoundingSphere(v) ==
  LET a == Farthest(v, v[1], 1, 1, 0)
      b == Farthest(v, v[a], 1, 1, 0)
      sum == VecAdd(v[a], v[b])
      first == [center |-> <<Half(sum[1]), Half(sum[2]), Half(sum[3])>>,
                radius |-> Half(ISqrt(distance2(v[a], v[b])))]
  IN GrowAll(first, v, 1)

\* computeBoundingSphere(const std::vector<Vertex> &): the same on the
\* positions of the vertices.
computeBoundingSphereOfVertices(v) ==
  computeBoundingSphere([i \in 1..Len(v) |-> v[i].position])

\* -------------------------------------------------------------------- Node
\* Meshes by name, with their vertex positions.
MeshVertices(mesh) ==
  CASE mesh = "centred" -> << <<-1, 0, 0>>, <<1, 0, 0>> >>
    [] mesh = "offcentre" -> << <<4, 0, 0>>, <<6, 0, 0>> >>
    [] mesh = "tall" -> << <<0, 0, -2>>, <<0, 0, 2>>, <<0, 0, 0>> >>
    [] OTHER -> << <<0, 0, 0>> >>

\* An empty weak_ptr.
NoParent == [target |-> 0, expired |-> TRUE]

\* Node::Node(mesh, texture) followed by setPosition and setEulerAngle.
Node(mesh, pos, quat) ==
  [m_parent |-> NoParent,
   m_pos |-> pos,
   m_quat |-> quat,
   m_mesh |-> mesh,
   m_boundingSphere |-> computeBoundingSphere(MeshVertices(mesh))]

\* Node::localMatrix: the rotation, with the position as last column.
localMatrix(node) ==
  [mat4_cast(node.m_quat) EXCEPT
     ![4] = <<node.m_pos[1], node.m_pos[2], node.m_pos[3], 1>>]

\* Node::worldMatrix of node n of `nodes`: m_parent.lock() gives the parent
\* unless the reference is empty or expired.
worldMatrixLocalOnly(nodes, n) == localMatrix(nodes[n])

RECURSIVE worldMatrix(_, _)
worldMatrix(nodes, n) ==
  IF ~nodes[n].m_parent.expired
  THEN MatMul(worldMatrix(nodes, nodes[n].m_parent.target), localMatrix(nodes[n]))
  ELSE localMatrix(nodes[n])

\* ------------------------------------------- computeBoundingSphere, called
\* Vertex positions the meshes are drawn from, and the longest mesh.
VertexPoints ==
  { <<0, 0, 0>>, <<64, 0, 0>>, <<0, 48, 0>>, <<-32, 24, 0>>, <<20, 20, 20>>,
    <<-64, -48, 12>> }

MaxVertices == 3

RECURSIVE SeqsUpTo(_, _)
SeqsUpTo(S, n) ==
  IF n = 0 THEN { << >> }
  ELSE LET shorter == SeqsUpTo(S, n - 1)
       IN shorter \cup {Append(q, x) : q \in {t \in shorter : Len(t) = n - 1}, x \in S}

VertexSeqs == SeqsUpTo(VertexPoints, MaxVertices)

\* v[0] of an empty vector is read out of bounds: the process dies, or the
\* function goes on with whatever it read (both loops are skipped, so the
\* sphere is that point with radius 0).
EmptyInputOutcomes ==
  { [fn |-> "computeBoundingSphere", outcome |-> "crashed"] }
    \cup { [fn |-> "computeBoundingSphere", outcome |-> "returned",
            sphere |-> [center |-> g, radius |-> 0]] : g \in VertexPoints }

\* The caller takes the result; the next call can be made.
Return ==
  /\ pc = "library"
  /\ call # NoCall
  /\ call' = NoCall
  /\ ret' = NoCall
  /\ UNCHANGED << pc, m_nodes, frameVars, meshVars >>

ComputeBoundingSphere ==
  /\ pc = "library"
  /\ call = NoCall
  /\ \E overload \in {"vec3", "Vertex"}, v \in VertexSeqs :
       /\ call' = [fn |-> "computeBoundingSphere", overload |-> overload, v |-> v]
       /\ IF v = << >>
          THEN ret' \in EmptyInputOutcomes
          ELSE ret' = [fn |-> "computeBoundingSphere", outcome |-> "returned",
                       sphere |->
                         IF overload = "vec3" THEN computeBoundingSphere(v)
                         ELSE computeBoundingSphereOfVertices(
                                [i \in 1..Len(v) |-> [position |-> v[i]]])]
  /\ UNCHANGED << pc, m_nodes, frameVars, meshVars >>

\* Node::Node and Node::setMesh hand m_mesh->vertices() to
\* computeBoundingSphere.
ConstructNode ==
  /\ pc = "library"
  /\ call = NoCall
  /\ \E mesh \in {"centred", "offcentre", "tall", "empty"} :
       LET v == IF mesh = "empty" THEN << >> ELSE MeshVertices(mesh) IN
       /\ call' = [fn |-> "computeBoundingSphere", overload |-> "Vertex", v |-> v]
       /\ IF v = << >>
          THEN ret' \in EmptyInputOutcomes
          ELSE ret' = [fn |-> "computeBoundingSphere", outcome |-> "returned",
                       sphere |-> Node(mesh, <<0, 0, 0>>, 0).m_boundingSphere]
  /\ UNCHANGED << pc, m_nodes, frameVars, meshVars >>

InitSphere ==
  /\ EngineNotRunning
  /\ pc = "library"
  /\ m_nodes = << >>
  /\ LibraryIdle

NextSphere ==
  \/ ComputeBoundingSphere
  \/ ConstructNode
  \/ Return

SpecSphere == InitSphere /\ [][NextSphere]_vars

\* --------------------------------------------- frustum culling, called
\* glm::translate(-eye): the view matrix of a camera at `eye` looking
\* along -z without rotation.
TranslateBy(t) ==
  << <<1, 0, 0, 0>>, <<0, 1, 0, 0>>, <<0, 0, 1, 0>>, <<t[1], t[2], t[3], 1>> >>

\* A projection of the shape glm::perspective gives, with whole entries,
\* after `proj[1][1] *= -1`: w = -z, x and y kept (y flipped), z from
\* -2z - 3.
PerspectiveProj ==
  << <<1, 0, 0, 0>>, <<0, -1, 0, 0>>, <<0, 0, -2, -1>>, <<0, 0, -3, 0>> >>

\* The matrix with every entry multiplied by s.
Scaled(m, s) == [c \in 1..4 |-> [r \in 1..4 |-> s * m[c][r]]]

Eyes == { <<0, 0, 0>>, <<-5, 0, 0>>, <<1, -1, 2>> }

CullHalfExtent == 2

\* View-projection matrices handed to extractFrustum.
ViewProjections ==
  {OrthoVP(eye, half) : eye \in Eyes, half \in 1..CullHalfExtent}
    \cup {Scaled(OrthoVP(eye, CullHalfExtent), 2) : eye \in Eyes}
    \cup {MatMul(PerspectiveProj, TranslateBy(<<-eye[1], -eye[2], -eye[3]>>)) :
            eye \in Eyes}

\* The matrices whose planes have normals of whole length.
WholeLengthVPs ==
  {OrthoVP(eye, half) : eye \in Eyes, half \in 1..CullHalfExtent}
    \cup {Scaled(OrthoVP(eye, CullHalfExtent), 2) : eye \in Eyes}

GridHalf == 3

\* World-space points.
Grid == {<<x, y, z>> : x \in -GridHalf..GridHalf, y \in -1..1, z \in -GridHalf..GridHalf}

MaxRadius == 2

\* Spheres handed to sphereInFrustum.
Spheres ==
  {[center |-> <<x, y, 0>>, radius |-> r] :
     x \in -GridHalf..GridHalf, y \in {0, 2}, r \in 0..MaxRadius}

ExtractFrustum ==
  /\ pc = "library"
  /\ call = NoCall
  /\ \E vp \in ViewProjections :
       /\ call' = [fn |-> "extractFrustum", vp |-> vp]
       /\ ret' = [fn |-> "extractFrustum", frustum |-> extractFrustum(vp)]
  /\ UNCHANGED << pc, m_nodes, frameVars, meshVars >>

SphereInFrustum ==
  /\ pc = "library"
  /\ call = NoCall
  /\ \E vp \in WholeLengthVPs, bs \in Spheres :
       /\ call' = [fn |-> "sphereInFrustum", f |-> extractFrustum(vp), bs |-> bs]
       /\ ret' = [fn |-> "sphereInFrustum",
                  value |-> sphereInFrustum(extractFrustum(vp), bs)]
  /\ UNCHANGED << pc, m_nodes, frameVars, meshVars >>

\* Positions and meshes of the nodes that are culled.
NodePositions == { <<0, 0, 0>>, <<3, 0, 0>>, <<-5, 1, 0>> }

NodeMeshes == {"centred", "offcentre", "tall"}

\* One round of updateUBO's loop for one node: the visibility flag it
\* stores for the node under the view-projection matrix vp.
CullNode ==
  /\ pc = "library"
  /\ call = NoCall
  /\ \E mesh \in NodeMeshes, pos \in NodePositions, quat \in QuarterTurns,
        eye \in Eyes :
       LET node == Node(mesh, pos, quat)
           vp == OrthoVP(eye, CullHalfExtent)
       IN /\ call' = [fn |-> "cull", node |-> node, vp |-> vp]
          /\ ret' = [fn |-> "cull",
                     visible |-> sphereInFrustum(extractFrustum(vp),
                                                 boundingSphere(node))]
  /\ UNCHANGED << pc, m_nodes, frameVars, meshVars >>

InitCull ==
  /\ EngineNotRunning
  /\ pc = "library"
  /\ m_nodes = << >>
  /\ LibraryIdle

NextCull ==
  \/ ExtractFrustum
  \/ SphereInFrustum
  \/ CullNode
  \/ Return

SpecCull == InitCull /\ [][NextCull]_vars

\* ------------------------------------------------ minDynamicUBOAlignment
\* size_t is narrowed to WordBits bits; every size the model computes with
\* stays below 2^WordBits.
WordBits == 16

RECURSIVE Pow2(_)
Pow2(n) == IF n = 0 THEN 1 ELSE 2 * Pow2(n - 1)

\* x & y on words of n bits.
RECURSIVE BitAnd(_, _, _)
BitAnd(x, y, n) ==
  IF n = 0 THEN 0
  ELSE (x % 2) * (y % 2) + 2 * BitAnd(x \div 2, y \div 2, n - 1)

\* ~x
BitNot(x) == Pow2(WordBits) - 1 - x

minDynamicUBOAlignmentRoundsDown(uboSize, min_ubo_alignment) ==
  BitAnd(uboSize, BitNot(min_ubo_alignment - 1), WordBits)

\* Engine::minDynamicUBOAlignment, min_ubo_alignment being the device's
\* minUniformBufferOffsetAlignment.
minDynamicUBOAlignment(uboSize, min_ubo_alignment) ==
  IF min_ubo_alignment > 0
  THEN BitAnd((uboSize + min_ubo_alignment - 1) % Pow2(WordBits),
              BitNot(min_ubo_alignment - 1), WordBits)
  ELSE uboSize

\* sizeof(ModelUBO): two mat4 and a uint32; sizeof(ShadowUniformBufferObject):
\* one mat4.
SizeofModelUBO == 132

SizeofShadowUBO == 64

MAX_NODES == 32

\* minUniformBufferOffsetAlignment is a power of two, at most 256.
MaxAlignmentLog2 == 8

Alignments == {Pow2(k) : k \in 0..MaxAlignmentLog2}

MaxUboSize == 40

MinDynamicUBOAlignment ==
  /\ pc = "library"
  /\ call = NoCall
  /\ \E uboSize \in 1..MaxUboSize, a \in Alignments :
       /\ call' = [fn |-> "minDynamicUBOAlignment", uboSize |-> uboSize,
                   alignment |-> a]
       /\ ret' = [fn |-> "minDynamicUBOAlignment",
                  value |-> minDynamicUBOAlignment(uboSize, a)]
  /\ UNCHANGED << pc, m_nodes, frameVars, meshVars >>

InitModelUB ==
  /\ pc = "library"
  /\ call = NoCall
  /\ \E a \in Alignments :
       LET sizePerNode == minDynamicUBOAlignment(SizeofModelUBO, a)
       IN /\ call' = [fn |-> "initModelUB", alignment |-> a]
          /\ ret' = [fn |-> "initModelUB",
                     modelUBOBufferSizePerNode |-> sizePerNode,
                     totalBufferSize |-> MAX_NODES * sizePerNode]
  /\ UNCHANGED << pc, m_nodes, frameVars, meshVars >>

InitShadowUB ==
  /\ pc = "library"
  /\ call = NoCall
  /\ \E a \in Alignments :
       LET shadowSizePerNode == minDynamicUBOAlignment(SizeofShadowUBO, a)
       IN /\ call' = [fn |-> "initShadowUB", alignment |-> a]
          /\ ret' = [fn |-> "initShadowUB",
                     shadowUBOBufferSizePerNode |-> shadowSizePerNode,
                     shadowTotalBufferSize |-> MAX_NODES * shadowSizePerNode]
  /\ UNCHANGED << pc, m_nodes, frameVars, meshVars >>

InitAlign ==
  /\ EngineNotRunning
  /\ pc = "library"
  /\ m_nodes = << >>
  /\ LibraryIdle

NextAlign ==
  \/ MinDynamicUBOAlignment
  \/ InitModelUB
  \/ InitShadowUB
  \/ Return

SpecAlign == InitAlign /\ [][NextAlign]_vars

\* ------------------------------------------------------ Node, in a hierarchy
\* The class has no operation that assigns m_parent; worldMatrix() is
\* given node hierarchies as its input here.  m_nodes holds the nodes that
\* are alive; a parent comes after its children, so the last node is a
\* root.
MaxHierarchy == 3

\* A reference to the live node t.
ParentRef(t) == [target |-> t, expired |-> FALSE]

\* The hierarchies of n freshly constructed nodes.
RECURSIVE Hierarchies(_)
Hierarchies(n) ==
  IF n = 0 THEN { << >> }
  ELSE {<< [Node("centred", <<0, 0, 0>>, 0) EXCEPT !.m_parent = ref] >> \o
          [i \in 1..(n - 1) |->
             [rest[i] EXCEPT !.m_parent =
                IF @.expired THEN @ ELSE ParentRef(@.target + 1)]] :
          rest \in Hierarchies(n - 1),
          ref \in {NoParent} \cup {ParentRef(t) : t \in 2..n}}

\* Positions the nodes of a hierarchy are moved to.
HierarchyPositions == { <<0, 0, 0>>, <<3, 1, 0>> }

\* m_parent.lock() succeeds.
Resolves(node) == ~node.m_parent.expired

SetPosition ==
  /\ pc = "library"
  /\ call = NoCall
  /\ \E n \in 1..Len(m_nodes), pos \in HierarchyPositions :
       m_nodes' = [m_nodes EXCEPT ![n].m_pos = pos]
  /\ UNCHANGED << pc, frameVars, meshVars, libVars >>

SetEulerAngle ==
  /\ pc = "library"
  /\ call = NoCall
  /\ \E n \in 1..Len(m_nodes), k \in QuarterTurns :
       m_nodes' = [m_nodes EXCEPT ![n].m_quat = k]
  /\ UNCHANGED << pc, frameVars, meshVars, libVars >>

\* The last owner of the last node lets go of it: the node is destroyed
\* and the weak references to it expire.
ReleaseNode ==
  /\ pc = "library"
  /\ call = NoCall
  /\ Len(m_nodes) > 1
  /\ m_nodes' =
       [i \in 1..(Len(m_nodes) - 1) |->
          IF m_nodes[i].m_parent.target = Len(m_nodes)
          THEN [m_nodes[i] EXCEPT !.m_parent.expired = TRUE]
          ELSE m_nodes[i]]
  /\ UNCHANGED << pc, frameVars, meshVars, libVars >>

WorldMatrix ==
  /\ pc = "library"
  /\ call = NoCall
  /\ \E n \in 1..Len(m_nodes) :
       /\ call' = [fn |-> "worldMatrix", n |-> n]
       /\ ret' = [fn |-> "worldMatrix", outcome |-> "returned",
                  value |-> worldMatrix(m_nodes, n)]
  /\ UNCHANGED << pc, m_nodes, frameVars, meshVars >>

InitNode ==
  /\ EngineNotRunning
  /\ pc = "library"
  /\ m_nodes \in Hierarchies(MaxHierarchy)
  /\ LibraryIdle

NextNode ==
  \/ SetPosition
  \/ SetEulerAngle
  \/ ReleaseNode
  \/ WorldMatrix
  \/ Return

SpecNode == InitNode /\ [][NextNode]_vars

\* ------------------------------------------------------------ mesh buffers
\* The engine from its construction to its draw loops, as far as the mesh
\* buffers go: pc is "constructed" until prepare() has run, then "prepared".
MaxSceneNodes == 3

\* MeshData of the k-th buffer pair uploadBuffer has created.
UploadedMeshData(k) == [vertexBuffer |-> 2 * k - 1, indexBuffer |-> 2 * k]

\* MeshData{}: what unordered_map::operator[] inserts for a missing key.
DefaultMeshData == [vertexBuffer |-> VK_NULL_HANDLE, indexBuffer |-> VK_NULL_HANDLE]

\* The map m with key k set to value v.
MapPut(m, k, v) == [x \in DOMAIN m \cup {k} |-> IF x = k THEN v ELSE m[x]]

\* initVertexBuffer's loop from node i on: a mesh that is not a key of the
\* map yet is uploaded and entered.
RECURSIVE InitVertexBufferFrom(_, _, _, _)
InitVertexBufferFrom(nodes, i, map, ups) ==
  IF i > Len(nodes) THEN [meshBufferMap |-> map, uploads |-> ups]
  ELSE LET mesh == nodes[i].m_mesh
       IN IF mesh \notin DOMAIN map
          THEN InitVertexBufferFrom(nodes, i + 1,
                                    MapPut(map, mesh, UploadedMeshData(Len(ups) + 1)),
                                    Append(ups, mesh))
          ELSE InitVertexBufferFrom(nodes, i + 1, map, ups)

\* addNode, before or after prepare().
AddNodeToScene ==
  /\ pc \in {"constructed", "prepared"}
  /\ call = NoCall
  /\ Len(m_nodes) < MaxSceneNodes
  /\ \E mesh \in NodeMeshes : PushNode(Node(mesh, <<0, 0, 0>>, 0))
  /\ UNCHANGED << pc, frameVars, meshVars, libVars >>

\* prepare(), of which initVertexBuffer is the part that fills the map.
InitVertexBuffer ==
  /\ pc = "constructed"
  /\ call = NoCall
  /\ pc' = "prepared"
  /\ LET done == InitVertexBufferFrom(m_nodes, 1, meshBufferMap, uploads)
     IN /\ meshBufferMap' = done.meshBufferMap
        /\ uploads' = done.uploads
  /\ UNCHANGED << m_nodes, frameVars, libVars, textureVars, strideVars >>

\* One round of a draw loop (renderShadow or the colour pass) for a node
\* whose flag is set: the buffers it binds.
DrawNode ==
  /\ pc = "prepared"
  /\ call = NoCall
  /\ \E i \in 1..Len(m_nodes) :
       LET mesh == m_nodes[i].m_mesh
           map == IF mesh \in DOMAIN meshBufferMap THEN meshBufferMap
                  ELSE MapPut(meshBufferMap, mesh, DefaultMeshData)
       IN /\ meshBufferMap' = map
          /\ call' = [fn |-> "draw", i |-> i]
          /\ ret' = [fn |-> "draw",
                     vertexBuffer |-> map[mesh].vertexBuffer,
                     indexBuffer |-> map[mesh].indexBuffer]
  /\ UNCHANGED << pc, m_nodes, frameVars, uploads, textureVars, strideVars >>

\* The draw call has been recorded.
DrawReturn ==
  /\ pc = "prepared"
  /\ call # NoCall
  /\ call' = NoCall
  /\ ret' = NoCall
  /\ UNCHANGED << pc, m_nodes, frameVars, meshVars >>

InitMesh ==
  /\ EngineNotRunning
  /\ pc = "constructed"
  /\ m_nodes = << >>
  /\ LibraryIdle

NextMesh ==
  \/ AddNodeToScene
  \/ InitVertexBuffer
  \/ DrawNode
  \/ DrawReturn

SpecMesh == InitMesh /\ [][NextMesh]_vars

\* ---------------------------------------------------------------- textures
\* The engine from its construction to its destruction, as far as the
\* texture images go.
MaxTexturedNodes == 3

Textures == {"brick", "wood"}

\* A constructor that leaves an expired reference in m_parent.
NewNodeWithParent(mesh, texture) ==
  [m_texture |-> texture, m_parent |-> [target |-> 1, expired |-> TRUE],
   m_pos |-> <<0, 0, 0>>, m_quat |-> 0, m_mesh |-> mesh,
   m_boundingSphere |-> computeBoundingSphere(MeshVertices(mesh))]

\* Node::Node(mesh, texture): the node at the origin, unrotated, with its
\* texture.
NewNode(mesh, texture) ==
  [m_texture |-> texture] @@ Node(mesh, <<0, 0, 0>>, 0)

\* TextureData of the k-th image vmaCreateImage has created.
CreatedTextureData(k) == [image |-> k, allocation |-> k, imageView |-> k]

\* initTexture's loop from node i on: an image and a view are created for
\* the node's texture and stored under the texture, whatever the map holds.
RECURSIVE InitTextureFrom(_, _, _, _)
InitTextureFrom(nodes, i, map, imgs) ==
  IF i > Len(nodes) THEN [textureMap |-> map, textureImages |-> imgs]
  ELSE LET texture == nodes[i].m_texture
       IN InitTextureFrom(nodes, i + 1,
                          MapPut(map, texture, CreatedTextureData(Len(imgs) + 1)),
                          Append(imgs, texture))

\* addNode before prepare().
AddTexturedNode ==
  /\ pc = "constructed"
  /\ Len(m_nodes) < MaxTexturedNodes
  /\ \E mesh \in NodeMeshes, texture \in Textures :
       PushNode(NewNode(mesh, texture))
  /\ UNCHANGED << pc, frameVars, meshVars, libVars >>

\* prepare(), of which initTexture is the part that fills the map.
InitTexture ==
  /\ pc = "constructed"
  /\ pc' = "prepared"
  /\ LET done == InitTextureFrom(m_nodes, 1, textureMap, textureImages)
     IN /\ textureMap' = done.textureMap
        /\ textureImages' = done.textureImages
  /\ UNCHANGED << m_nodes, frameVars, meshBufferMap, uploads, strideVars,
                  libVars >>

\* The images textureMap holds, in the order of their creation.
MappedImages ==
  SelectSeq([k \in 1..Len(textureImages) |-> k],
            LAMBDA k : \E texture \in DOMAIN textureMap :
                         textureMap[texture].image = k)

\* ~Engine, of which the loop over textureMap is the part that releases the
\* texture images.
TextureDestructor ==
  /\ pc = "prepared"
  /\ pc' = "destroyed"
  /\ destroyed' = MappedImages
  /\ UNCHANGED << running, res, failure, surfaceVars, swapVars, imgOwner,
                  perFrame, inflight, currentIndex, recVars, semVars,
                  sceneVars, flagVars, steps, infoVars, orphans, armed, meshVars,
                  libVars >>

InitTextures ==
  /\ EngineNotRunning
  /\ pc = "constructed"
  /\ m_nodes = << >>
  /\ LibraryIdle

NextTexture ==
  \/ AddTexturedNode
  \/ InitTexture
  \/ TextureDestructor

SpecTexture == InitTextures /\ [][NextTexture]_vars

\* ----------------------------------------------------- per-node uniforms
\* The engine from its construction on, as far as the dynamic uniform
\* buffers go: initUBO at prepare(), then updateUBO and the two draw loops
\* of every frame.
MaxExtraNodes == 1

\* How many of the leading nodes a frame may cull in a pass.
MaxCulled == 2

\* The uniform buffers and descriptor sets initShadowUB, initModelUB,
\* bindShadowDescriptorSet and bindModelDescriptorSet give slot s: each
\* buffer holds MAX_NODES strides, each set names the slot's own buffer from
\* offset 0 with the struct's size as range.
UniformSlot(s, modelStride, shadowStride) ==
  [modelUniformBuffer |-> [slot |-> s, kind |-> "model",
                           size |-> MAX_NODES * modelStride],
   shadowUniformBuffer |-> [slot |-> s, kind |-> "shadow",
                            size |-> MAX_NODES * shadowStride],
   modelDescriptorSet |-> [slot |-> s, kind |-> "model", offset |-> 0,
                           range |-> SizeofModelUBO],
   shadowDescriptorSet |-> [slot |-> s, kind |-> "shadow", offset |-> 0,
                            range |-> SizeofShadowUBO]]

\* i * stride with the wrong index.
UniformOffsetNextNode(i, stride) == (i + 1) * stride

\* The byte offset of node i (counted from 0): i * stride.
UniformOffset(i, stride) == i * stride

\* static_cast<uint32_t>(i * stride): the products of the model stay below
\* MAX_NODES + MaxExtraNodes strides of at most 2^(MaxAlignmentLog2 + 1)
\* bytes, far below 2^32, where the cast keeps the value.
DynamicOffset(i, stride) == i * stride

\* vmaCopyMemoryToAllocation calls of updateUBO's loop for one kind of
\* buffer: node i's struct at its offset in the slot's allocation.
UniformWrites(slot, kind, n, stride, size) ==
  [i \in 1..n |-> [slot |-> slot, kind |-> kind,
                   offset |-> UniformOffset(i - 1, stride), size |-> size]]

\* vkCmdBindDescriptorSets calls of a draw loop: one per node whose flag is
\* set, with the slot's descriptor set and the node's dynamic offset.
UniformBinds(set, n, stride, culled) ==
  LET all == [i \in 1..n |-> [node |-> i, set |-> set,
                              dynamic_offset |-> DynamicOffset(i - 1, stride)]]
  IN SelectSeq(all, LAMBDA b : b.node \notin culled)

\* addNode, before or after prepare(); the nodes differ in nothing the
\* uniform buffers depend on.
AddUniformNode ==
  /\ pc \in {"constructed", "prepared"}
  /\ call = NoCall
  /\ Len(m_nodes) < MAX_NODES + MaxExtraNodes
  /\ PushNode(NewNode("centred", "brick"))
  /\ UNCHANGED << pc, frameVars, meshVars, libVars >>

\* prepare(), of which initUBO is the part that creates the buffers and the
\* descriptor sets of every slot.
PrepareUBO ==
  /\ pc = "constructed"
  /\ pc' = "prepared"
  /\ \E a \in Alignments, n \in ImageCounts :
       LET modelStride == minDynamicUBOAlignment(SizeofModelUBO, a)
           shadowStride == minDynamicUBOAlignment(SizeofShadowUBO, a)
       IN /\ modelUBOBufferSizePerNode' = modelStride
          /\ shadowUBOBufferSizePerNode' = shadowStride
          /\ perFrame' = [s \in 1..n |-> UniformSlot(s, modelStride, shadowStride)]
  /\ UNCHANGED << m_nodes, running, res, failure, surfaceVars, swapVars,
                  imgOwner, inflight, currentIndex, recVars, semVars,
                  m_lightPos, cameraPos, flagVars, steps, infoVars,
                  teardownVars, armed, meshBufferMap, uploads, textureVars, libVars >>

\* One frame on slot s: updateUBO(perFrame[s]), then renderShadow(s) and the
\* colour pass of render(s).
RenderFrame ==
  /\ pc = "prepared"
  /\ call = NoCall
  /\ \E s \in 1..Len(perFrame) :
     \E shadowCulled, culled \in
          SUBSET {i \in 1..Len(m_nodes) : i <= MaxCulled} :
       LET n == Len(m_nodes) IN
       /\ call' = [fn |-> "update", slot |-> s]
       /\ ret' = [fn |-> "update",
                  shadowWrites |->
                    UniformWrites(s, "shadow", n, shadowUBOBufferSizePerNode,
                                  SizeofShadowUBO),
                  modelWrites |->
                    UniformWrites(s, "model", n, modelUBOBufferSizePerNode,
                                  SizeofModelUBO),
                  shadowBinds |->
                    UniformBinds(perFrame[s].shadowDescriptorSet, n,
                                 shadowUBOBufferSizePerNode, shadowCulled),
                  modelBinds |->
                    UniformBinds(perFrame[s].modelDescriptorSet, n,
                                 modelUBOBufferSizePerNode, culled)]
  /\ UNCHANGED << pc, m_nodes, frameVars, meshVars >>

\* update() has returned.
FrameReturn ==
  /\ pc = "prepared"
  /\ call # NoCall
  /\ call' = NoCall
  /\ ret' = NoCall
  /\ UNCHANGED << pc, m_nodes, frameVars, meshVars >>

InitUniforms ==
  /\ EngineNotRunning
  /\ pc = "constructed"
  /\ m_nodes = << >>
  /\ LibraryIdle

NextUniforms ==
  \/ AddUniformNode
  \/ PrepareUBO
  \/ RenderFrame
  \/ FrameReturn

SpecUniforms == InitUniforms /\ [][NextUniforms]_vars

\* ------------------------------------------- Node, its public operations
\* Nodes as a program gets them: made by a constructor, then changed by the
\* setters and read by the const member functions.
MaxPublicNodes == 1

\* Node() = default: no mesh, no texture, BoundingSphere{} (centre at the
\* origin, radius 0).
DefaultNode ==
  [m_texture |-> "null",
   m_parent |-> NoParent,
   m_pos |-> <<0, 0, 0>>,
   m_quat |-> 0,
   m_mesh |-> "null",
   m_boundingSphere |-> [center |-> <<0, 0, 0>>, radius |-> 0]]

ConstructPublicNode ==
  /\ pc = "library"
  /\ call = NoCall
  /\ Len(m_nodes) < MaxPublicNodes
  /\ \/ \E mesh \in NodeMeshes, texture \in Textures :
          PushNode(NewNode(mesh, texture))
     \/ PushNode(DefaultNode)
  /\ UNCHANGED << pc, frameVars, meshVars, libVars >>

SetQuat ==
  /\ pc = "library"
  /\ call = NoCall
  /\ \E n \in 1..Len(m_nodes), k \in QuarterTurns :
       m_nodes' = [m_nodes EXCEPT ![n].m_quat = k]
  /\ UNCHANGED << pc, frameVars, meshVars, libVars >>

\* Node::setMesh: the mesh is stored and the sphere of its vertices cached.
SetMesh ==
  /\ pc = "library"
  /\ call = NoCall
  /\ \E n \in 1..Len(m_nodes), mesh \in NodeMeshes :
       m_nodes' = [m_nodes EXCEPT
                     ![n].m_mesh = mesh,
                     ![n].m_boundingSphere =
                        computeBoundingSphere(MeshVertices(mesh))]
  /\ UNCHANGED << pc, frameVars, meshVars, libVars >>

SetTexture ==
  /\ pc = "library"
  /\ call = NoCall
  /\ \E n \in 1..Len(m_nodes), texture \in Textures :
       m_nodes' = [m_nodes EXCEPT ![n].m_texture = texture]
  /\ UNCHANGED << pc, frameVars, meshVars, libVars >>

\* Node::boundingSphere() const.
BoundingSphereQuery ==
  /\ pc = "library"
  /\ call = NoCall
  /\ \E n \in 1..Len(m_nodes) :
       /\ call' = [fn |-> "boundingSphere", n |-> n]
       /\ ret' = [fn |-> "boundingSphere", outcome |-> "returned",
                  value |-> boundingSphere(m_nodes[n])]
  /\ UNCHANGED << pc, m_nodes, frameVars, meshVars >>

InitPublic ==
  /\ EngineNotRunning
  /\ pc = "library"
  /\ m_nodes = << >>
  /\ LibraryIdle

NextPublic ==
  \/ ConstructPublicNode
  \/ SetPosition
  \/ SetQuat
  \/ SetEulerAngle
  \/ SetMesh
  \/ SetTexture
  \/ BoundingSphereQuery
  \/ WorldMatrix
  \/ Return

SpecPublic == InitPublic /\ [][NextPublic]_vars

\* ================================================================== claims
\* The six steps of a frame, in the order update() runs them.
FrameSteps == << "acquire", "updateUBO", "shadow", "color", "submit", "present" >>

IsFrameStep(x) == x \in Range(FrameSteps)

\* update() has ended: it returned to mainLoop, or the process died in it.
UpdateEnded == steps # << >> /\ pc \in {"loop", "exited", "terminated"}

\* The current update() acquired an image successfully.
Acquired == "acquire" \in Range(steps)

\* The slot the frame uses is being written or recorded by the CPU.
SlotInUse ==
  \/ pc = "check" /\ res = VK_SUCCESS
  \/ pc \in {"shadow", "color", "submit"}

Count(seq, x) == Cardinality({i \in 1..Len(seq) : seq[i] = x})

\* C1: in every update() whose acquisition succeeds, the six steps acquire,
\* updateUBO, shadow pass, colour pass, submit, present happen exactly once
\* each, in this order, none skipped.
C1_StepsOnceInOrder ==
  (UpdateEnded /\ Acquired) => SelectSeq(steps, IsFrameStep) = FrameSteps

\* C2: at most one submission per slot is incomplete; a slot is written and
\* recorded only when no submission using it is incomplete (the fence wait
\* of the acquisition came first); frames in flight never exceed the slots.
C2_OneSubmissionPerSlot ==
  /\ \A s \in 1..Len(inflight) : inflight[s] <= 1
  /\ Cardinality({s \in 1..Len(inflight) : inflight[s] > 0}) <= Len(perFrame)
  /\ SlotInUse =>
       /\ inflight[currentIndex] = 0
       /\ perFrame[currentIndex].queue_submit_fence = "unsignaled"

\* A slot that was submitted before is recorded again while the other
\* slot's submission is still running.
C2_Witness ==
  /\ pc = "color"
  /\ perFrame[currentIndex].swapchain_release_semaphore # VK_NULL_HANDLE
  /\ \E s \in 1..Len(inflight) : s # currentIndex /\ inflight[s] = 1

\* What a command does to the shadow image.
ShadowOp(c) ==
  IF c.op = "barrier" THEN << "barrier", c.old, c.new >> ELSE << c.op, "", "" >>

TouchesShadow(c) == c.image = "shadow"

ShadowOps(cmds) ==
  LET sel == SelectSeq(cmds, TouchesShadow)
  IN [k \in 1..Len(sel) |-> ShadowOp(sel[k])]

\* C3: in every recorded frame the shadow image sees exactly: barrier to the
\* depth-write layout, shadow pass, barrier write -> shader-read, colour
\* pass, barrier shader-read -> write; the colour pass is recorded only
\* with the image in the shader-read layout, the shadow pass only in the
\* write layout, and the ended buffer leaves the image in the write layout.
C3_ShadowImageSequence ==
  /\ \A k \in 1..Len(cmd) :
       /\ cmd[k].op = "colorPass" =>
            /\ LayoutAfter(UNDEFINED, SubSeq(cmd, 1, k - 1)) = SHADER_READ_ONLY_OPTIMAL
            /\ \E j \in 1..(k - 1) : cmd[j].op = "shadowPass"
       /\ cmd[k].op = "shadowPass" =>
            LayoutAfter(UNDEFINED, SubSeq(cmd, 1, k - 1)) = DEPTH_STENCIL_ATTACHMENT_OPTIMAL
  /\ cmdEnded =>
       /\ ShadowOps(cmd) =
            << << "barrier", UNDEFINED, DEPTH_STENCIL_ATTACHMENT_OPTIMAL >>,
               << "shadowPass", "", "" >>,
               << "barrier", DEPTH_STENCIL_ATTACHMENT_OPTIMAL, SHADER_READ_ONLY_OPTIMAL >>,
               << "colorPass", "", "" >>,
               << "barrier", SHADER_READ_ONLY_OPTIMAL, DEPTH_STENCIL_ATTACHMENT_OPTIMAL >> >>
       /\ shadowLayout = DEPTH_STENCIL_ATTACHMENT_OPTIMAL

\* A second frame has been recorded to its end.
C3_Witness ==
  /\ cmdEnded
  /\ pc = "submit"
  /\ \E s \in 1..Len(perFrame) :
       perFrame[s].swapchain_release_semaphore # VK_NULL_HANDLE

\* The draws of the pass named `op` in the recorded commands.
DrawsOf(op) ==
  LET sel == SelectSeq(cmd, LAMBDA c : c.op = op)
  IN IF sel = << >> THEN << >> ELSE sel[1].draws

Abs(x) == IF x < 0 THEN -x ELSE x

\* A sphere touches the axis-aligned box of half extent `half` round `eye`.
TouchesBox(eye, half, bs) ==
  \A a \in 1..3 : Abs(bs.center[a] - eye[a]) <= half + bs.radius

\* C4: node i is drawn in the shadow pass iff m_shadowCastingNodes[i], in
\* the colour pass iff m_visibleNodes[i]; the first flag comes from the
\* light frustum alone, the second from the camera frustum alone.  The
\* recorded draws are compared while the frame that recorded them runs
\* (m_nodes can grow once it has returned).
C4_DrawsFollowFlags ==
  /\ pc \in {"color", "submit", "present"} =>
       \A k \in 1..Len(cmd) :
         /\ cmd[k].op = "shadowPass" =>
              /\ Range(cmd[k].draws) =
                   {i \in 1..Len(m_nodes) : m_shadowCastingNodes[i]}
              /\ Len(cmd[k].draws) = Cardinality(Range(cmd[k].draws))
         /\ cmd[k].op = "colorPass" =>
              /\ Range(cmd[k].draws) = {i \in 1..Len(m_nodes) : m_visibleNodes[i]}
              /\ Len(cmd[k].draws) = Cardinality(Range(cmd[k].draws))
  /\ pc \in {"shadow", "color", "submit", "present"} =>
       /\ Len(m_shadowCastingNodes) = Len(m_nodes)
       /\ Len(m_visibleNodes) = Len(m_nodes)
       /\ \A i \in 1..Len(m_nodes) :
            /\ m_shadowCastingNodes[i] =
                 TouchesBox(m_lightPos, LightHalfExtent, boundingSphere(m_nodes[i]))
            /\ m_visibleNodes[i] =
                 TouchesBox(cameraPos, CameraHalfExtent, boundingSphere(m_nodes[i]))

\* A node in the light frustum and outside the camera frustum is drawn in
\* the shadow pass and skipped in the colour pass.
C4_Witness ==
  /\ cmdEnded
  /\ \E i \in 1..Len(m_nodes) :
       /\ i \in Range(DrawsOf("shadowPass"))
       /\ i \notin Range(DrawsOf("colorPass"))
       /\ ~m_visibleNodes[i]

\* C5: whenever the acquisition or the presentation returns a stale result,
\* update() rebuilds the swapchain and what is sized after it, and runs
\* the operation that failed exactly once more.
C5_StaleRebuildsAndRetries ==
  (pc = "loop" /\ steps # << >>) =>
     /\ (Len(steps) >= 2 /\ steps[1] = "acquireFail" /\ steps[2] = "resize") =>
          /\ "initSwapchain" \in Range(steps)
          /\ colorExtent = swapchainDimensions
          /\ Count(steps, "acquire") + Count(steps, "acquireFail") = 2
     /\ ("present" \in Range(steps) /\ Stale(res)) =>
          /\ "initSwapchain" \in Range(steps)
          /\ colorExtent = swapchainDimensions
          /\ Count(steps, "present") = 2

RenderSteps == {"updateUBO", "shadow", "color", "submit", "present"}

\* C6: an update() whose acquisition did not succeed updates no flag and
\* no uniform, records, submits and presents nothing; it waits for the
\* queue to be idle and returns to mainLoop.
C6_FailedAcquireState ==
  /\ (Range(steps) \cap RenderSteps # {}) => Acquired
  /\ (pc = "loop" /\ steps # << >> /\ ~Acquired) =>
       /\ steps[Len(steps)] = "waitIdle"
       /\ submitInfo = NoInfo
       /\ presentInfo = NoInfo
       /\ cmd = << >>

C6_FailedAcquireStep ==
  (pc = "check" /\ res # VK_SUCCESS /\ pc' # pc) =>
     /\ pc' = "loop"
     /\ AllIdle
     /\ steps' = Append(steps, "waitIdle")
     /\ failure' = "none"
     /\ UNCHANGED << flagVars, perFrame, inflight, recVars, infoVars, imgOwner >>

C6_FailedAcquireDropsFrame ==
  [](C6_FailedAcquireState) /\ [][C6_FailedAcquireStep]_vars

\* Both acquisitions of an update() failed and it returned.
C6_Witness ==
  /\ pc = "loop"
  /\ steps = << "acquireFail", "resize", "acquireFail", "waitIdle" >>
  /\ res = VK_SUBOPTIMAL_KHR

\* C7: a per-frame GPU error other than a stale surface never ends the
\* loop or the process.
C7_ErrorsNeverTerminate == failure = "exception" => pc # "terminated"

\* C8: once a stale result has been answered by a swapchain of the
\* surface's size, the frames that acquire an image are rendered and
\* presented again.
C8_FramesResumeAfterStale ==
  ( /\ swapchainDimensions # colorExtent
    /\ swapchainDimensions = surfaceExtent
    /\ Acquired
    /\ failure # "exception" ) => pc # "terminated"

\* C9: perFrame holds image_count slots, and the slot a frame uses has its
\* fence waited and reset, its command pool reset, and valid uniform
\* buffers and descriptor sets.
C9_SlotsUsable ==
  /\ Len(perFrame) = swapchain.image_count
  /\ SlotInUse =>
       /\ perFrame[currentIndex].queue_submit_fence = "unsignaled"
       /\ perFrame[currentIndex].primary_command_pool
       /\ pc = "check" => cmd = << >>
       /\ perFrame[currentIndex].uniforms

\* C10: the submission waits on the semaphore handed to this frame's
\* acquisition and signals the slot's release semaphore; the present waits
\* on that release semaphore.
C10_SemaphoreChain ==
  /\ "submit" \in Range(steps) =>
       /\ acquireSem # VK_NULL_HANDLE
       /\ submitInfo.wait = acquireSem
       /\ submitInfo.signal # VK_NULL_HANDLE
       /\ submitInfo.signal # submitInfo.wait
       /\ submitInfo.slot = currentIndex
       /\ pc = "present" =>
            submitInfo.signal = perFrame[currentIndex].swapchain_release_semaphore
  /\ "present" \in Range(steps) =>
       /\ presentInfo.wait = submitInfo.signal
       /\ presentInfo.slot = submitInfo.slot

\* A frame on a slot that already had both semaphores was presented.
C10_Witness ==
  /\ pc = "loop"
  /\ "present" \in Range(steps)
  /\ presentInfo.wait # VK_NULL_HANDLE
  /\ recycledSemaphores # << >>

\* The states in which the render passes read the flags.
PassesRun == pc \in {"shadow", "color", "submit", "present"}

\* C11: in every frame that renders, both flag vectors have exactly
\* m_nodes.size() entries when the passes read them, every entry holds the
\* value of this frame's camera and light frustum (nodes added by addNode
\* since the last frame included), and neither the flags nor the node list
\* change while the passes run.
C11_FlagsState ==
  PassesRun =>
    /\ Len(m_visibleNodes) = Len(m_nodes)
    /\ Len(m_shadowCastingNodes) = Len(m_nodes)
    /\ \A i \in 1..Len(m_nodes) :
         /\ m_visibleNodes[i] =
              TouchesBox(cameraPos, CameraHalfExtent, boundingSphere(m_nodes[i]))
         /\ m_shadowCastingNodes[i] =
              TouchesBox(m_lightPos, LightHalfExtent, boundingSphere(m_nodes[i]))

C11_FlagsStep ==
  PassesRun => UNCHANGED << m_nodes, cameraPos, m_lightPos, flagVars >>

C11_FlagsRecomputedEveryFrame ==
  [](C11_FlagsState) /\ [][C11_FlagsStep]_vars

\* A node added after the previous frame is drawn by the colour pass of a
\* frame whose camera sees it, and not by the shadow pass.
C11_Witness ==
  /\ pc = "submit"
  /\ Len(m_nodes) > Len(SceneNodes)
  /\ Len(m_nodes) \in Range(DrawsOf("colorPass"))
  /\ Len(m_nodes) \notin Range(DrawsOf("shadowPass"))
  /\ \E s \in 1..Len(perFrame) :
       perFrame[s].swapchain_release_semaphore # VK_NULL_HANDLE

\* Position of `x` in the sequence `seq` (0 when it is not there).
IndexOf(seq, x) ==
  IF x \in Range(seq) THEN CHOOSE k \in 1..Len(seq) : seq[k] = x ELSE 0

\* What lives in memory of the VMA allocator, and what is a child object of
\* the device.
AllocatorOwned ==
  {"perFrame", "colorImages", "depthImage", "shadowImage", "meshBufferMap",
   "textureMap"}

DeviceOwned ==
  Range(DestructorOrder) \ {"vkDeviceWaitIdle", "surface", "device"}

\* C12: once the loop has ended nothing is released before the device is
\* idle, and every object created on the device or in the allocator is
\* released before its owner.
C12_ReleaseAfterIdleInOrder ==
  /\ pc = "exited" => AllIdle /\ destroyed = << >>
  /\ destroyed # << >> =>
       /\ pc = "destroyed"
       /\ destroyed[1] = "vkDeviceWaitIdle"
       /\ \A x \in AllocatorOwned :
            IndexOf(destroyed, x) \in 1..(IndexOf(destroyed, "vmaAllocator") - 1)
       /\ \A x \in DeviceOwned :
            IndexOf(destroyed, x) \in 1..(IndexOf(destroyed, "device") - 1)
       /\ orphans = 0

\* How far outside the sphere a vertex may lie through rounding, in units.
Tolerance == 3

\* C15: for a non-empty vertex sequence both overloads return a sphere
\* with radius >= 0 that holds every vertex, up to the rounding tolerance.
C15_SphereContainsVertices ==
  (call.fn = "computeBoundingSphere" /\ call.v # << >>) =>
     /\ ret.outcome = "returned"
     /\ ret.sphere.radius >= 0
     /\ \A i \in 1..Len(call.v) :
          distance2(call.v[i], ret.sphere.center)
            <= (ret.sphere.radius + Tolerance) * (ret.sphere.radius + Tolerance)

\* The sphere of the two farthest vertices left a third vertex outside and
\* was enlarged for it.
C15_Witness ==
  /\ call.fn = "computeBoundingSphere"
  /\ Len(call.v) = 3
  /\ ret.outcome = "returned"
  /\ LET a == Farthest(call.v, call.v[1], 1, 1, 0)
         b == Farthest(call.v, call.v[a], 1, 1, 0)
     IN ret.sphere.radius
          > Half(ISqrt(distance2(call.v[a], call.v[b]))) + Tolerance

\* C16: on an empty vertex sequence computeBoundingSphere (and so Node's
\* constructor and setMesh) ends with an explicit error.
C16_EmptyInputIsAnError ==
  (call.fn = "computeBoundingSphere" /\ call.v = << >>) => ret.outcome = "error"

\* A vertex of the node's mesh, moved by worldMatrix(), on the inner side
\* of all six planes of the frustum of vp.
VertexInFrustum(node, vp) ==
  LET v == MeshVertices(node.m_mesh)
      model == worldMatrix(<<node>>, 1)
  IN \E i \in 1..Len(v) :
       \A k \in 1..6 :
         distance(extractFrustum(vp)[k], TransformPoint(model, v[i])) >= 0

\* C13: a node with a mesh vertex inside the frustum, whatever its position
\* and orientation, passes the sphere test and is flagged visible.
C13_NeverCullsVisible ==
  (call.fn = "cull" /\ VertexInFrustum(call.node, call.vp)) => ret.visible

\* The signed distance of the sphere's centre to plane i times the length
\* of the plane's normal, and that length.
RawDistance(f, bs, i) == distance(f[i], bs.center)

NormalLength(f, i) == ISqrt(Dot(f[i].normal, f[i].normal))

\* C14: sphereInFrustum is false exactly when the centre is farther than
\* the radius behind some plane; a sphere that touches a plane from behind
\* and is behind no plane by more than its radius is visible; so is a
\* sphere all inside.
C14_SphereTest ==
  call.fn = "sphereInFrustum" =>
    LET f == call.f
        bs == call.bs
        Behind(i) == RawDistance(f, bs, i) < -(bs.radius * NormalLength(f, i))
        Tangent(i) == RawDistance(f, bs, i) = -(bs.radius * NormalLength(f, i))
        Inside(i) == RawDistance(f, bs, i) >= bs.radius * NormalLength(f, i)
    IN /\ \A i \in 1..6 :
            NormalLength(f, i) * NormalLength(f, i) = Dot(f[i].normal, f[i].normal)
       /\ (ret.value = FALSE) <=> (\E i \in 1..6 : Behind(i))
       /\ (\A i \in 1..6 : Inside(i)) => ret.value = TRUE
       /\ ((\E i \in 1..6 : Tangent(i)) /\ (\A i \in 1..6 : ~Behind(i)))
            => ret.value = TRUE

\* A sphere of positive radius that touches a plane from behind, the
\* plane's normal being longer than one, and is reported visible.
C14_Witness ==
  /\ call.fn = "sphereInFrustum"
  /\ call.bs.radius > 0
  /\ \E i \in 1..6 :
       /\ NormalLength(call.f, i) > 1
       /\ RawDistance(call.f, call.bs, i)
            = -(call.bs.radius * NormalLength(call.f, i))
  /\ ret.value = TRUE

\* Clip coordinates of the world-space point p under vp.
Clip(vp, p) == MatVec(vp, <<p[1], p[2], p[3], 1>>)

SmallestMultiple(a, size) ==
  CHOOSE m \in size..(size + a) :
    /\ m % a = 0
    /\ \A n \in size..(m - 1) : n % a # 0

\* C18: for a power-of-two alignment minDynamicUBOAlignment returns the
\* smallest multiple of the alignment that is at least the size, and the
\* per-node strides of the model and shadow uniform buffers are these
\* values for sizeof(ModelUBO) and sizeof(ShadowUniformBufferObject).
C18_AlignedStride ==
  /\ call.fn = "minDynamicUBOAlignment" =>
       ret.value = SmallestMultiple(call.alignment, call.uboSize)
  /\ call.fn = "initModelUB" =>
       ret.modelUBOBufferSizePerNode
         = SmallestMultiple(call.alignment, SizeofModelUBO)
  /\ call.fn = "initShadowUB" =>
       ret.shadowUBOBufferSizePerNode
         = SmallestMultiple(call.alignment, SizeofShadowUBO)

\* A size that is not a multiple of the alignment and larger than it is
\* rounded up.
C18_Witness ==
  /\ call.fn = "minDynamicUBOAlignment"
  /\ call.uboSize > call.alignment
  /\ call.alignment > 1
  /\ ret.value > call.uboSize

\* The point p turned by k quarter turns about z.
Rotate(k, p) ==
  CASE k = 0 -> p
    [] k = 1 -> <<-p[2], p[1], p[3]>>
    [] k = 2 -> <<-p[1], -p[2], p[3]>>
    [] k = 3 -> <<p[2], -p[1], p[3]>>

\* Where the object-space point p of node n is in the world: turned and
\* moved by the node, then by its parent when the reference resolves, and
\* so on up.
RECURSIVE WorldPoint(_, _, _)
WorldPoint(nodes, n, p) ==
  LET q == VecAdd(Rotate(nodes[n].m_quat, p), nodes[n].m_pos)
  IN IF Resolves(nodes[n]) THEN WorldPoint(nodes, nodes[n].m_parent.target, q)
     ELSE q

\* Four points that fix an affine map.
Basis == { <<0, 0, 0>>, <<1, 0, 0>>, <<0, 1, 0>>, <<0, 0, 1>> }

\* C19: worldMatrix() is parent.worldMatrix() x localMatrix(), recursively,
\* while the parent reference resolves, and localMatrix() without an error
\* when the reference is empty or the parent has been released; it is
\* computed from the nodes' transforms at the time of the call.
C19_WorldMatrix ==
  call.fn = "worldMatrix" =>
    LET n == call.n
    IN /\ ret.outcome = "returned"
       /\ \A c \in 1..4 : ret.value[c][4] = (IF c = 4 THEN 1 ELSE 0)
       /\ \A p \in Basis :
            TransformPoint(ret.value, p) = WorldPoint(m_nodes, n, p)
       /\ Resolves(m_nodes[n]) =>
            ret.value = MatMul(worldMatrix(m_nodes, m_nodes[n].m_parent.target),
                               localMatrix(m_nodes[n]))
       /\ ~Resolves(m_nodes[n]) => ret.value = localMatrix(m_nodes[n])

\* A grandchild under a turned and moved parent and grandparent: its world
\* matrix differs from its local matrix.
C19_Witness ==
  /\ call.fn = "worldMatrix"
  /\ Resolves(m_nodes[call.n])
  /\ LET parent == m_nodes[call.n].m_parent.target
     IN /\ Resolves(m_nodes[parent])
        /\ m_nodes[parent].m_quat = 1
        /\ m_nodes[parent].m_pos # <<0, 0, 0>>
        /\ m_nodes[m_nodes[parent].m_parent.target].m_quat = 3
  /\ m_nodes[call.n].m_pos # <<0, 0, 0>>
  /\ ret.value # localMatrix(m_nodes[call.n])

\* C20: the mesh of a node that is drawn has exactly one uploaded buffer
\* pair in meshBufferMap, a mesh shared by several nodes being uploaded
\* once, and no node is drawn whose mesh was never uploaded.
C20_DrawnMeshUploadedOnce ==
  /\ \A mesh \in NodeMeshes : Count(uploads, mesh) <= 1
  /\ call.fn = "draw" =>
       LET mesh == m_nodes[call.i].m_mesh
       IN /\ Count(uploads, mesh) = 1
          /\ mesh \in DOMAIN meshBufferMap
          /\ meshBufferMap[mesh] = UploadedMeshData(IndexOf(uploads, mesh))
          /\ ret.vertexBuffer # VK_NULL_HANDLE
          /\ ret.indexBuffer # VK_NULL_HANDLE

\* The textures the nodes of the scene reference.
ReferencedTextures == {m_nodes[i].m_texture : i \in 1..Len(m_nodes)}

\* C21: after prepare() there is exactly one image per distinct texture the
\* nodes reference, however many nodes share it, and every image created is
\* recorded in textureMap, so that ~Engine destroys it.
C21_OneImagePerTexture ==
  /\ pc \in {"prepared", "destroyed"} =>
       /\ \A texture \in ReferencedTextures : Count(textureImages, texture) = 1
       /\ \A k \in 1..Len(textureImages) :
            \E texture \in DOMAIN textureMap : textureMap[texture].image = k
  /\ pc = "destroyed" =>
       \A k \in 1..Len(textureImages) : k \in Range(destroyed)

\* The slot whose fence acquireNextSwapchainImage has reset in this update()
\* and whose frame is not yet submitted.
FrameBeingRecorded(s) ==
  /\ currentIndex = s
  /\ \/ pc = "check" /\ res = VK_SUCCESS
     \/ pc \in {"shadow", "color", "submit"}

\* C22: a fence that is unsignaled with no submission pending that would
\* signal it belongs to the frame being recorded, which is submitted with
\* that fence before the next wait (or the program has ended on an error):
\* whenever acquireNextSwapchainImage waits on a slot's fence, the fence is
\* signaled or a pending submission will signal it, so the wait returns.
C22_FenceWaitReturns ==
  \A s \in 1..Len(perFrame) :
    (perFrame[s].queue_submit_fence = "unsignaled" /\ inflight[s] = 0) =>
      (FrameBeingRecorded(s) \/ pc = "terminated")

\* The wait has returned on a slot that was submitted before: its fence had
\* been reset by an earlier frame and signaled by that frame's submission.
C22_Witness ==
  /\ pc = "check"
  /\ res = VK_SUCCESS
  /\ acquireSem # VK_NULL_HANDLE
  /\ perFrame[currentIndex].swapchain_release_semaphore # VK_NULL_HANDLE
  /\ perFrame[currentIndex].queue_submit_fence = "unsignaled"

\* A frame has been rendered on slot call.slot and ret holds its uniform
\* writes and descriptor-set binds.
FrameRendered == call # NoCall /\ call.fn = "update"

\* The write w is node i's struct on slot s, at i's multiple of the stride.
WrittenAt(w, s, kind, i, stride, size) ==
  /\ w.slot = s
  /\ w.kind = kind
  /\ w.offset = (i - 1) * stride
  /\ w.size = size

\* The bind b reads, through slot s's descriptor set of this kind, the bytes
\* the write of its node has filled.
ReadsWhatWasWritten(b, s, kind, writes) ==
  /\ b.set.slot = s
  /\ b.set.kind = kind
  /\ b.set.offset + b.dynamic_offset = writes[b.node].offset
  /\ b.set.range = writes[b.node].size

\* The byte ranges of the writes are pairwise disjoint.
Disjoint(writes) ==
  \A i, j \in 1..Len(writes) :
    i < j => writes[i].offset + writes[i].size <= writes[j].offset

\* C23: in every frame on slot s, node i's shadow and model data are written
\* into slot s's buffers at i times the stride of that buffer, every draw of
\* node i binds slot s's descriptor set of the pass with the same offset into
\* the same buffer, and the regions of two nodes do not overlap.
C23_NodeUniformRegions ==
  FrameRendered =>
    LET s == call.slot
        n == Len(m_nodes)
    IN /\ Len(ret.shadowWrites) = n
       /\ Len(ret.modelWrites) = n
       /\ \A i \in 1..n :
            /\ WrittenAt(ret.shadowWrites[i], s, "shadow", i,
                         shadowUBOBufferSizePerNode, SizeofShadowUBO)
            /\ WrittenAt(ret.modelWrites[i], s, "model", i,
                         modelUBOBufferSizePerNode, SizeofModelUBO)
       /\ \A k \in 1..Len(ret.shadowBinds) :
            ReadsWhatWasWritten(ret.shadowBinds[k], s, "shadow", ret.shadowWrites)
       /\ \A k \in 1..Len(ret.modelBinds) :
            ReadsWhatWasWritten(ret.modelBinds[k], s, "model", ret.modelWrites)
       /\ Disjoint(ret.shadowWrites)
       /\ Disjoint(ret.modelWrites)

\* A frame on the second slot with several nodes, one of them culled from
\* the shadow pass, and strides padded beyond the structs' sizes.
C23_Witness ==
  /\ FrameRendered
  /\ call.slot = 2
  /\ Len(m_nodes) = 3
  /\ Len(ret.shadowBinds) = 2
  /\ Len(ret.modelBinds) = 3
  /\ modelUBOBufferSizePerNode > SizeofModelUBO
  /\ shadowUBOBufferSizePerNode > SizeofShadowUBO

\* C26: every per-node uniform write and every dynamic offset stays inside
\* the buffer of MAX_NODES strides, and no frame is rendered with more than
\* MAX_NODES nodes.
C26_WritesInsideBuffer ==
  FrameRendered =>
    LET slot == perFrame[call.slot] IN
    /\ Len(m_nodes) <= MAX_NODES
    /\ \A i \in 1..Len(ret.shadowWrites) :
         ret.shadowWrites[i].offset + ret.shadowWrites[i].size
           <= slot.shadowUniformBuffer.size
    /\ \A i \in 1..Len(ret.modelWrites) :
         ret.modelWrites[i].offset + ret.modelWrites[i].size
           <= slot.modelUniformBuffer.size
    /\ \A k \in 1..Len(ret.shadowBinds) :
         ret.shadowBinds[k].dynamic_offset + SizeofShadowUBO
           <= slot.shadowUniformBuffer.size
    /\ \A k \in 1..Len(ret.modelBinds) :
         ret.modelBinds[k].dynamic_offset + SizeofModelUBO
           <= slot.modelUniformBuffer.size

\* The swapchain images the application holds: acquired and neither
\* presented nor dropped with their swapchain.
HeldImages == {i \in 1..Len(imgOwner) : imgOwner[i] = "app"}

\* C24: every image an acquisition has handed out is rendered and presented,
\* or its swapchain is recreated, before update() acquires another image:
\* no acquisition is made while an image is held.
C24_NoAcquireWhileHolding ==
  pc \in {"acquire", "reacquire"} => HeldImages = {}

\* Semaphores a submission that has not completed waits on.
WaitPending ==
  {perFrame[s].swapchain_acquire_semaphore :
     s \in {t \in 1..Len(perFrame) : inflight[t] > 0}} \ {VK_NULL_HANDLE}

\* C25: the semaphore an acquisition takes from recycledSemaphores has no
\* signal pending and no wait pending: it got there after the submission
\* that waited on it completed, or from an acquisition that did not arm it.
C25_AcquireSemaphoreIdle ==
  (pc \in {"acquire", "reacquire"} /\ recycledSemaphores # << >>) =>
    LET sem == recycledSemaphores[Len(recycledSemaphores)]
    IN sem \notin armed /\ sem \notin WaitPending

\* The slots that hold an acquire semaphore.
SlotsWithSemaphore ==
  {s \in 1..Len(perFrame) :
     perFrame[s].swapchain_acquire_semaphore # VK_NULL_HANDLE}

\* The semaphores acquireNextSwapchainImage has created that the program
\* holds: those of recycledSemaphores and the slots' acquire semaphores.
AcquireSemaphores ==
  Range(recycledSemaphores)
    \cup {perFrame[s].swapchain_acquire_semaphore : s \in SlotsWithSemaphore}

\* No semaphore is held in two places.
HeldOnce ==
  /\ \A j, k \in 1..Len(recycledSemaphores) :
       j # k => recycledSemaphores[j] # recycledSemaphores[k]
  /\ \A s, t \in SlotsWithSemaphore :
       s # t => perFrame[s].swapchain_acquire_semaphore
                  # perFrame[t].swapchain_acquire_semaphore
  /\ \A s \in SlotsWithSemaphore :
       perFrame[s].swapchain_acquire_semaphore \notin Range(recycledSemaphores)

\* C28: until ~Engine destroys them, every semaphore
\* acquireNextSwapchainImage has created stays held in exactly one place,
\* recycledSemaphores or one slot's swapchain_acquire_semaphore: no step of
\* the program loses one or holds one twice.
C28_SemaphoresHeldOnce ==
  [][pc' # "destroyed" =>
       /\ AcquireSemaphores \subseteq AcquireSemaphores'
       /\ HeldOnce']_vars

\* C27: whenever a render pass begins, every image it attaches is in the
\* layout declared for that attachment, put there by a barrier recorded
\* before the pass: the shadow image and the main depth image in the depth
\* attachment layout, the MSAA colour image and the swapchain image in
\* COLOR_ATTACHMENT_OPTIMAL.
C27_AttachmentsInDeclaredLayout ==
  \A k \in 1..Len(cmd) :
    cmd[k].op \in {"shadowPass", "colorPass"} =>
      \A a \in Attachments(cmd[k].op) :
        DepthAspect(ImageLayoutAfter(a.image, SubSeq(cmd, 1, k - 1)))
          = a.imageLayout

\* The cached sphere of node n is not changed by the step, or the step is a
\* setMesh on n and the new sphere is the one of the new mesh.
CacheKeptOrSetMesh(n) ==
  \/ m_nodes'[n].m_boundingSphere = m_nodes[n].m_boundingSphere
  \/ /\ m_nodes'[n].m_mesh # m_nodes[n].m_mesh
     /\ m_nodes'[n].m_pos = m_nodes[n].m_pos
     /\ m_nodes'[n].m_quat = m_nodes[n].m_quat
     /\ m_nodes'[n].m_texture = m_nodes[n].m_texture
     /\ m_nodes'[n].m_boundingSphere
          = computeBoundingSphere(MeshVertices(m_nodes'[n].m_mesh))

\* What boundingSphere() returned is the cached sphere moved by m_pos.
ReturnsCachedSphereAtPosition ==
  (call # NoCall /\ call.fn = "boundingSphere") =>
    LET node == m_nodes[call.n]
    IN /\ ret.value.radius = node.m_boundingSphere.radius
       /\ \A c \in 1..3 :
            ret.value.center[c] = node.m_boundingSphere.center[c] + node.m_pos[c]

\* C29: the cached object-space sphere is computed at construction with a
\* mesh and recomputed only by setMesh; setPosition, setQuat, setEulerAngle,
\* setTexture and the queries leave it unchanged; every boundingSphere()
\* returns the cached radius and the cached centre plus the position of the
\* moment, so two queries with no operation between return the same sphere.
C29_CachedSphere ==
  /\ [](ReturnsCachedSphereAtPosition)
  /\ [][\A n \in 1..Len(m_nodes) : CacheKeptOrSetMesh(n)]_vars

\* A query on a default-constructed node that was given an off-centre mesh
\* and a texture, moved away from the origin and turned.
C29_Witness ==
  /\ call # NoCall
  /\ call.fn = "boundingSphere"
  /\ m_nodes[call.n].m_pos # <<0, 0, 0>>
  /\ m_nodes[call.n].m_quat # 0
  /\ m_nodes[call.n].m_mesh = "offcentre"
  /\ m_nodes[call.n].m_texture = "null"
  /\ ret.value.center # m_nodes[call.n].m_boundingSphere.center

\* C30: in every state Node's public operations reach, no node has a parent
\* reference; so worldMatrix() is localMatrix(), and the position it puts
\* the node at is the node's own position, the one boundingSphere() uses.
C30_NoParent ==
  /\ \A n \in 1..Len(m_nodes) : m_nodes[n].m_parent = NoParent
  /\ (call # NoCall /\ call.fn = "worldMatrix") =>
       /\ ret.value = localMatrix(m_nodes[call.n])
       /\ TransformPoint(ret.value, <<0, 0, 0>>) = m_nodes[call.n].m_pos

\* worldMatrix() of a node that was moved and turned.
C30_Witness ==
  /\ call # NoCall
  /\ call.fn = "worldMatrix"
  /\ m_nodes[call.n].m_mesh # "null"
  /\ m_nodes[call.n].m_pos # <<0, 0, 0>>
  /\ m_nodes[call.n].m_quat # 0

====
